---- MODULE Spec2Model ----
(***************************************************************************)
(* BiblioX: record harmonization / deduplication (harmonize.py) and the    *)
(* co-occurrence graph builders (network.py).                              *)
(*                                                                         *)
(* A text value (a Python str) is a sequence of one-character strings; a   *)
(* missing cell (pandas NaN) is the value NaN below, which is no text.     *)
(* A DataFrame is [columns |-> sequence of column names, rows |-> sequence *)
(* of rows], a row being a function from the frame's columns to cells.     *)
(* Row index labels are not modelled: ignore_index / reset_index only      *)
(* relabel rows and no modelled operation reads a label.                   *)
(***************************************************************************)
EXTENDS Integers, Sequences, FiniteSets, TLC

VARIABLES
    dfs,        \* merge_and_dedupe: the list of tables handed to it
    merged,     \* merge_and_dedupe(dfs)
    remerged,   \* merge_and_dedupe([merged])
    mpc,        \* position of the merge pipeline
    txt,        \* _norm_authors: the raw author cell
    normed,     \* _norm_authors(txt)
    apc,        \* position of the normalizer run
    acol,       \* coauthorship_graph: df["authors"], one cell per record
    kcol,       \* keyword_cooccurrence_graph: df[field], one cell per record
    min_freq,   \* the pruning threshold passed to the graph builders
    G2,         \* the graph returned by coauthorship_graph
    KG2,        \* the graph returned by keyword_cooccurrence_graph
    kfreq,      \* the freq Counter returned (as a series) with KG2
    gpc,        \* position of the graph builders
    Gfull,      \* G of coauthorship_graph: the graph before pruning
    KGfull,     \* G of keyword_cooccurrence_graph: the graph before pruning
    vfn,        \* the value normalizer called: authors, keywords, doi, country
    vin,        \* its argument, any Python value
    vout,       \* its result, or the exception it raised
    vpc,        \* position of the value normalizer call
    raw,        \* the raw table handed to the loader / Harmonizer
    hfn,        \* the Harmonizer entry called: scopus, wos, read_any_table
    hout,       \* the table (or loader result) returned
    hpc,        \* position of the Harmonizer call
    cG,         \* the graph handed to detect_communities, with its attributes
    louvain,    \* whether "import community" gives python-louvain
    partition1, \* what the first call of detect_communities returned
    partition2, \* what a second call on the same graph returned
    cpc,        \* position of the community detection
    ffn,        \* frame runs: the function called
    fargs,      \* the input tables as they were when the call was made
    fk,         \* the min_freq argument of a graph builder
    heap,       \* the objects of the call and the names bound to them
    fpc,        \* position of the frame run
    files,      \* app.py: the uploaded files, each parsed to its raw table
    analysis_mode,  \* app.py: the analysis mode chosen in the sidebar
    fi,         \* the file the loop is at
    df_raw,     \* app.py: what cached_read(f) gave for that file
    app_dfs,    \* app.py: dfs, the tables appended so far
    app_from,   \* for each table of dfs, the file it came from
    messages,   \* what st.success / st.warning have shown, per file
    verdicts,   \* the answers of the three source detectors for one table
    app_pc      \* position of the dashboard run

vars == <<dfs, merged, remerged, mpc, txt, normed, apc,
          acol, kcol, min_freq, G2, KG2, kfreq, gpc, Gfull, KGfull,
          vfn, vin, vout, vpc, raw, hfn, hout, hpc,
          cG, louvain, partition1, partition2, cpc,
          ffn, fargs, fk, heap, fpc,
          files, analysis_mode, fi, df_raw, app_dfs, app_from, messages, verdicts,
          app_pc>>
mergeVars == <<dfs, merged, remerged, mpc>>
normVars == <<txt, normed, apc>>
graphVars == <<acol, kcol, min_freq, G2, KG2, kfreq, gpc, Gfull, KGfull>>
valueVars == <<vfn, vin, vout, vpc>>
harmVars == <<raw, hfn, hout, hpc>>
communityVars == <<cG, louvain, partition1, partition2, cpc>>
frameVars == <<ffn, fargs, fk, heap, fpc>>
appVars == <<files, analysis_mode, fi, df_raw, app_dfs, app_from, messages, verdicts,
          app_pc>>

\* ------------------------------------------------------------------ bounds
\* Tokens (records and table breaks) the list of input tables is built from.
MaxMergeTokens == 3
\* Pieces (names, delimiters, "et al" forms) a raw author cell is built from.
MaxNormPieces == 4
\* Tokens (entity names and record breaks) a graph input column is built from.
MaxGraphTokens == 5
\* Largest pruning threshold passed to the graph builders.
MaxMinFreq == 3
\* Pieces a raw keyword, DOI or country cell is built from.
MaxValuePieces == 3
\* Columns and rows of a raw export table.
MaxRawColumns == 3
MaxRawRows == 2
\* Nodes of a graph handed to detect_communities.
MaxCommunityNodes == 4
MaxAbsenceTokens == 3
\* Frame runs: columns and rows of a raw table, tokens of a table list or of a
\* graph input column.
MaxFrameColumns == 2
MaxFrameRows == 1
MaxFrameTokens == 2
\* Files uploaded in one dashboard run.
MaxFiles == 3
\* Columns of a table handed to the three source detectors.
MaxDetectColumns == 3

\* ------------------------------------------------------------- text values
NaN == <<"NaN">>
isna(v) == v = NaN
isstr(v) == v # NaN
Empty == <<>>
Whitespace == {" ", "\t", "\n"}

Range(s) == {s[i] : i \in 1..Len(s)}

RECURSIVE lstrip(_)
lstrip(s) == IF s # <<>> /\ Head(s) \in Whitespace THEN lstrip(Tail(s)) ELSE s

RECURSIVE rstrip(_)
rstrip(s) ==
    IF s # <<>> /\ s[Len(s)] \in Whitespace THEN rstrip(SubSeq(s, 1, Len(s) - 1)) ELSE s

\* str.strip()
strip(s) == rstrip(lstrip(s))

\* str.split(sep) / re.split("[...]", s) for one-character separators: every
\* segment between separators, empty ones included.
RECURSIVE split(_, _)
split(s, seps) ==
    IF \A i \in 1..Len(s) : s[i] \notin seps
    THEN <<s>>
    ELSE LET i == CHOOSE k \in 1..Len(s) :
                    s[k] \in seps /\ \A m \in 1..(k - 1) : s[m] \notin seps
         IN  <<SubSeq(s, 1, i - 1)>> \o split(SubSeq(s, i + 1, Len(s)), seps)

\* A dict that keeps the position of the last assignment of a key instead of
\* the first: last occurrences, in order.
Lasts(xs) ==
    LET idx == [i \in 1..Len(xs) |-> <<i, xs[i]>>]
        kept == SelectSeq(idx, LAMBDA p : \A j \in (p[1] + 1)..Len(xs) : xs[j] # p[2])
    IN  [i \in 1..Len(kept) |-> kept[i][2]]

\* list(dict.fromkeys(xs)): first occurrences, in order.
fromkeys(xs) == SelectSeq([i \in 1..Len(xs) |-> <<i, xs[i]>>],
                          LAMBDA p : \A j \in 1..(p[1] - 1) : xs[j] # p[2])

Firsts(xs) == [i \in 1..Len(fromkeys(xs)) |-> fromkeys(xs)[i][2]]

\* sep.join(parts)
RECURSIVE join(_, _)
join(parts, sep) ==
    IF parts = <<>> THEN <<>>
    ELSE IF Len(parts) = 1 THEN parts[1]
    ELSE parts[1] \o sep \o join(Tail(parts), sep)

\* ------------------------------------------------------------ harmonize.py
CANONICAL ==
    <<"title", "authors", "year", "source", "document_type", "doi", "cited_by",
      "author_keywords", "index_keywords", "abstract", "references",
      "affiliations", "countries", "source_db">>

\* pd.DataFrame(columns=cols)
EmptyFrame(cols) == [columns |-> cols, rows |-> <<>>]

\* Columns of several frames in order of first appearance.
RECURSIVE UnionColumns(_)
UnionColumns(frames) ==
    IF frames = <<>> THEN <<>>
    ELSE LET rest == UnionColumns(SubSeq(frames, 1, Len(frames) - 1))
             last == frames[Len(frames)].columns
         IN  rest \o SelectSeq(last, LAMBDA c : c \notin Range(rest))

Reindex(r, cols) == [c \in Range(cols) |-> IF c \in DOMAIN r THEN r[c] ELSE NaN]

RECURSIVE ConcatRows(_, _)
ConcatRows(frames, cols) ==
    IF frames = <<>> THEN <<>>
    ELSE [i \in 1..Len(frames[1].rows) |-> Reindex(frames[1].rows[i], cols)]
         \o ConcatRows(Tail(frames), cols)

\* pd.concat(frames, ignore_index=True): rows in list order then row order,
\* a column a frame lacks is NaN in its rows.
concat(frames) ==
    LET cols == UnionColumns(frames)
    IN  [columns |-> cols, rows |-> ConcatRows(frames, cols)]

\* df.dropna(): the forgotten-subset variant, a row with any missing cell goes.
dropna_any(df) ==
    [df EXCEPT !.rows = SelectSeq(df.rows, LAMBDA r : \A c \in DOMAIN r : ~isna(r[c]))]

\* df.dropna(subset=["title"], how="all")
dropna_title(df) ==
    [df EXCEPT !.rows = SelectSeq(df.rows, LAMBDA r : ~isna(r["title"]))]

\* Series.astype(str) of one cell: str(nan) is "nan".
astype_str(v) == IF isna(v) THEN <<"n", "a", "n">> ELSE v

\* has_doi = df["doi"].astype(str).str.len() > 0
has_doi(r) == Len(astype_str(r["doi"])) > 0

\* rows.drop_duplicates(subset=subset, keep="last")
drop_duplicates_last(rows, subset) ==
    LET idx == [i \in 1..Len(rows) |-> <<i, rows[i]>>]
        kept == SelectSeq(idx, LAMBDA p :
                    \A j \in (p[1] + 1)..Len(rows) :
                        \E c \in subset : rows[j][c] # p[2][c])
    IN  [i \in 1..Len(kept) |-> kept[i][2]]

\* rows.drop_duplicates(subset=subset, keep="first"); missing cells compare equal.
drop_duplicates(rows, subset) ==
    LET idx == [i \in 1..Len(rows) |-> <<i, rows[i]>>]
        kept == SelectSeq(idx, LAMBDA p :
                    \A j \in 1..(p[1] - 1) :
                        \E c \in subset : rows[j][c] # p[2][c])
    IN  [i \in 1..Len(kept) |-> kept[i][2]]

\* with_doi.drop_duplicates(subset=["doi"], keep="last")
dedupe_doi_last(with_doi) == drop_duplicates_last(with_doi, {"doi"})

\* df_doi = with_doi.drop_duplicates(subset=["doi"], keep="first")
dedupe_doi(with_doi) == drop_duplicates(with_doi, {"doi"})

\* lambda x: x.split(";")[0] if isinstance(x, str) else ""
first_author(x) == IF isstr(x) THEN split(x, {";"})[1] ELSE Empty

\* no_doi["first_author"] = no_doi["authors"].map(...): a new last column, or
\* the existing column overwritten.
with_first_author(no_doi) ==
    [columns |-> IF "first_author" \in Range(no_doi.columns) THEN no_doi.columns
                 ELSE Append(no_doi.columns, "first_author"),
     rows |-> [i \in 1..Len(no_doi.rows) |->
                 [c \in DOMAIN no_doi.rows[i] \cup {"first_author"} |->
                     IF c = "first_author"
                     THEN first_author(no_doi.rows[i]["authors"])
                     ELSE no_doi.rows[i][c]]]]

\* The superseded variant: drop_duplicates(subset=["title", "year"]).
dedupe_title_year(no_doi) ==
    LET w == with_first_author(no_doi)
    IN  [w EXCEPT !.rows = drop_duplicates(w.rows, {"title", "year"})]

\* The second tier without the "if not no_doi.empty" guard: the helper column
\* is written on an empty partition too.
dedupe_no_doi_unguarded(no_doi) ==
    LET w == with_first_author(no_doi)
    IN  [w EXCEPT !.rows = drop_duplicates(w.rows, {"title", "year", "first_author"})]

\* Lines 158-162: the second tier, on the records without a DOI.
dedupe_no_doi(no_doi) ==
    IF no_doi.rows # <<>>
    THEN LET w == with_first_author(no_doi)
         IN  [w EXCEPT !.rows = drop_duplicates(w.rows, {"title", "year", "first_author"})]
    ELSE EmptyFrame(no_doi.columns)

\* pd.concat([df_no_doi, df_doi], ignore_index=True): the partitions swapped.
final_concat_swapped(df_doi, df_no_doi) == concat(<<df_no_doi, df_doi>>)

\* df_final = pd.concat([df_doi, df_no_doi], ignore_index=True)
final_concat(df_doi, df_no_doi) == concat(<<df_doi, df_no_doi>>)

merge_and_dedupe(tables) ==
    IF tables = <<>> THEN EmptyFrame(CANONICAL)
    ELSE LET df == dropna_title(concat(tables))
             with_doi == [df EXCEPT !.rows = SelectSeq(df.rows, has_doi)]
             no_doi == [df EXCEPT !.rows = SelectSeq(df.rows, LAMBDA r : ~has_doi(r))]
             df_doi == [with_doi EXCEPT !.rows = dedupe_doi(with_doi.rows)]
             df_no_doi == dedupe_no_doi(no_doi)
         IN  final_concat(df_doi, df_no_doi)

\* ------------------------------------------------- inputs of the merge runs
T_ == <<"T">>
U_ == <<"U">>
AB == <<"A", ";", " ", "B">>
A_ == <<"A">>
BA == <<"B", ";", " ", "A">>
Y2020 == <<"2", "0", "2", "0">>
Y2021 == <<"2", "0", "2", "1">>
D1 == <<"1", "0", ".", "1", "/", "x">>
D2 == <<"1", "0", ".", "1", "/", "y">>

Rec(t, a, y, d) ==
    [c \in Range(CANONICAL) |->
        CASE c = "title" -> t
          [] c = "authors" -> a
          [] c = "year" -> y
          [] c = "doi" -> d
          [] c = "source_db" -> <<"S">>
          [] OTHER -> Empty]

\* The records the input tables are drawn from: harmonized rows (text cells,
\* "" where the raw column was missing, NaN where the raw cell was) and rows
\* of a harmonized file read back (NaN for an empty DOI or author cell).
RecordPool ==
    { Rec(T_, AB, Y2020, D1),        \* a record with a DOI
      Rec(U_, AB, Y2020, D1),        \* same DOI, another title
      Rec(T_, BA, Y2021, D2),        \* another DOI
      Rec(NaN, AB, Y2020, D1),       \* title cell missing, DOI present
      Rec(T_, AB, Y2020, Empty),     \* no DOI
      Rec(T_, A_, Y2020, Empty),     \* no DOI, same first author
      Rec(T_, BA, Y2020, Empty),     \* no DOI, another first author
      Rec(T_, AB, Y2021, Empty),     \* no DOI, another year
      Rec(U_, AB, Y2020, Empty),     \* no DOI, another title
      Rec(Empty, Empty, Empty, Empty),  \* every column filled by default
      Rec(NaN, AB, Y2020, Empty),    \* title cell missing, no DOI
      Rec(T_, AB, Y2020, NaN),       \* DOI cell missing
      Rec(U_, BA, Y2021, NaN),       \* DOI cell missing, another key
      Rec(T_, NaN, NaN, Empty) }     \* author and year cells missing

\* A table break: no record (its cells are no cell of any record).
Break == [c \in Range(CANONICAL) |-> <<"|">>]
MergeTokens == RecordPool \cup {Break}

RECURSIVE SeqsUpTo(_, _)
SeqsUpTo(S, n) ==
    IF n = 0 THEN {<<>>}
    ELSE LET shorter == SeqsUpTo(S, n - 1)
         IN  shorter \cup {Append(s, x) : s \in shorter, x \in S}

\* A token sequence as a list of canonical tables: a Break ends a table.
RECURSIVE TablesOf(_)
TablesOf(toks) ==
    IF \A i \in 1..Len(toks) : toks[i] # Break
    THEN <<[columns |-> CANONICAL, rows |-> toks]>>
    ELSE LET i == CHOOSE k \in 1..Len(toks) :
                    toks[k] = Break /\ \A m \in 1..(k - 1) : toks[m] # Break
         IN  <<[columns |-> CANONICAL, rows |-> SubSeq(toks, 1, i - 1)]>>
             \o TablesOf(SubSeq(toks, i + 1, Len(toks)))

MergeInputs == {<<>>} \cup {TablesOf(t) : t \in SeqsUpTo(MergeTokens, MaxMergeTokens)}

None == [columns |-> <<>>, rows |-> <<>>]

\* ------------------------------------------------------------ merge actions
InitMerge ==
    /\ dfs \in MergeInputs
    /\ merged = None
    /\ remerged = None
    /\ mpc = "start"

IdleMerge ==
    /\ dfs = <<>>
    /\ merged = None
    /\ remerged = None
    /\ mpc = "idle"

\* merged = merge_and_dedupe(dfs)
Merge ==
    /\ mpc = "start"
    /\ merged' = merge_and_dedupe(dfs)
    /\ mpc' = "merged"
    /\ UNCHANGED <<dfs, remerged, normVars, graphVars, valueVars, harmVars, communityVars, frameVars, appVars>>

\* merge_and_dedupe([merged])
Remerge ==
    /\ mpc = "merged"
    /\ remerged' = merge_and_dedupe(<<merged>>)
    /\ mpc' = "remerged"
    /\ UNCHANGED <<dfs, merged, normVars, graphVars, valueVars, harmVars, communityVars, frameVars, appVars>>

\* ---------------------------------------------------- merge: the claims
\* The records handed to merge_and_dedupe, tables in list order, rows in
\* table order.
Cat == concat(dfs).rows

\* The canonical cells of an output row.
Proj(r) == [c \in Range(CANONICAL) |-> r[c]]

IsDoi(d) == isstr(d) /\ d # Empty
HasTitle(r) == ~isna(r["title"])

\* The author entries of a canonical authors cell.
Entries(a) ==
    IF isna(a) THEN <<>>
    ELSE SelectSeq([i \in 1..Len(split(a, {";"})) |-> strip(split(a, {";"})[i])],
                   LAMBDA e : e # Empty)

FirstEntry(a) == IF Entries(a) = <<>> THEN Empty ELSE Entries(a)[1]

KeyOf(r) == <<r["title"], r["year"], FirstEntry(r["authors"])>>

Positions(rows, P(_)) == {i \in 1..Len(rows) : P(rows[i])}
Min(S) == CHOOSE x \in S : \A y \in S : x <= y

\* Of the records `rows` satisfying In, the output holds exactly one per
\* value of K, and it is the first of them in `rows`.
OnePerKeyFirst(rows, In(_), K(_)) ==
    LET rs == rows
    IN  \A i \in Positions(rs, In) :
            LET key == K(rs[i])
                same(r) == In(r) /\ K(r) = key
                first == rs[Min(Positions(rs, same))]
                kept == Positions(merged.rows, same)
            IN  /\ Cardinality(kept) = 1
                /\ \A k \in kept : Proj(merged.rows[k]) = first

WithDoi(r) == IsDoi(r["doi"])
WithDoiTitled(r) == IsDoi(r["doi"]) /\ HasTitle(r)
DoiOf(r) == r["doi"]
NoDoi(r) == r["doi"] = Empty
NoDoiTitled(r) == r["doi"] = Empty /\ HasTitle(r)

\* C3 as stated: among the records with a non-empty DOI the output holds
\* exactly one record per distinct DOI, the first in concatenation order.
C3_OnePerDoi_AsStated == mpc # "start" => OnePerKeyFirst(Cat, WithDoi, DoiOf)

\* C3 (amended): among the records that have a title and a non-empty DOI the
\* output holds exactly one record per distinct DOI, and it is the first of
\* them in concatenation order, whatever the titles and other fields are.
C3_OnePerDoi == mpc # "start" => OnePerKeyFirst(Cat, WithDoiTitled, DoiOf)

\* Two tables of one record each, same DOI, different titles: one record out,
\* the first table's.
C3_Witness ==
    /\ mpc = "merged"
    /\ Len(dfs) = 2
    /\ Len(dfs[1].rows) = 1 /\ Len(dfs[2].rows) = 1
    /\ IsDoi(dfs[1].rows[1]["doi"])
    /\ dfs[1].rows[1]["doi"] = dfs[2].rows[1]["doi"]
    /\ HasTitle(dfs[1].rows[1]) /\ HasTitle(dfs[2].rows[1])
    /\ dfs[1].rows[1]["title"] # dfs[2].rows[1]["title"]
    /\ Len(merged.rows) = 1
    /\ Proj(merged.rows[1]) = dfs[1].rows[1]

\* C4 as stated: among the records with an empty DOI the output holds exactly
\* one record per distinct (title, year, first author), the first one.
C4_OnePerKey_AsStated == mpc # "start" => OnePerKeyFirst(Cat, NoDoi, KeyOf)

\* C4 (amended): among the records that have a title and an empty DOI the
\* output holds exactly one record per distinct (title, year, first author),
\* the first in concatenation order; the first author is the first entry of
\* the authors, or the empty string when there are none.
C4_OnePerKey == mpc # "start" => OnePerKeyFirst(Cat, NoDoiTitled, KeyOf)

\* Three records without a DOI, the first two with one key, the third with
\* another first author only: two records out.
C4_Witness ==
    /\ mpc = "merged"
    /\ Len(Cat) = 3
    /\ \A i \in 1..3 : NoDoiTitled(Cat[i])
    /\ KeyOf(Cat[1]) = KeyOf(Cat[2])
    /\ Cat[1] # Cat[2]
    /\ Cat[3]["title"] = Cat[1]["title"] /\ Cat[3]["year"] = Cat[1]["year"]
    /\ FirstEntry(Cat[3]["authors"]) # FirstEntry(Cat[1]["authors"])
    /\ Len(merged.rows) = 2
    /\ Proj(merged.rows[1]) = Cat[1] /\ Proj(merged.rows[2]) = Cat[3]

FirstPos(cat, r) == Min({p \in 1..Len(cat) : cat[p] = Proj(r)})

\* C5: in the output every record with a non-empty DOI precedes every record
\* with an empty DOI, and within each of the two groups the survivors are in
\* their concatenation order.
C5_DoiFirstOrder ==
    mpc # "start" =>
        LET cat == Cat
        IN  \A i, j \in 1..Len(merged.rows) :
                i < j =>
                    LET a == merged.rows[i]
                        b == merged.rows[j]
                    IN  /\ ~(NoDoi(a) /\ WithDoi(b))
                        /\ (WithDoi(a) /\ WithDoi(b)) \/ (NoDoi(a) /\ NoDoi(b))
                             => /\ \E p \in 1..Len(cat) : cat[p] = Proj(a)
                                /\ \E p \in 1..Len(cat) : cat[p] = Proj(b)
                                /\ FirstPos(cat, a) < FirstPos(cat, b)

\* A record without DOI comes before two records with different DOIs in the
\* input, and all three survive.
C5_Witness ==
    /\ mpc = "merged"
    /\ Len(Cat) = 3 /\ Len(merged.rows) = 3
    /\ NoDoi(Cat[1]) /\ WithDoi(Cat[2]) /\ WithDoi(Cat[3])
    /\ Proj(merged.rows[1]) = Cat[2]
    /\ Proj(merged.rows[2]) = Cat[3]
    /\ Proj(merged.rows[3]) = Cat[1]

\* C6: merge_and_dedupe([merge_and_dedupe(Ts)]) has the same records, in the
\* same order, as merge_and_dedupe(Ts).
C6_Idempotent == mpc = "remerged" => remerged = merged

\* The first merge dropped a duplicate and kept records of both partitions.
C6_Witness ==
    /\ mpc = "remerged"
    /\ Len(merged.rows) < Len(Cat)
    /\ \E i, j \in 1..Len(merged.rows) : WithDoi(merged.rows[i]) /\ NoDoi(merged.rows[j])
    /\ remerged = merged

\* C7: no record whose title is missing (an absent value, or the empty-string
\* default of the Harmonizer) appears in the output.
C7_NoMissingTitle ==
    mpc # "start" =>
        \A k \in 1..Len(merged.rows) : merged.rows[k]["title"] \notin {NaN, Empty}

\* C8: the columns of the output are exactly the canonical columns.
C8_CanonicalColumns == mpc # "start" => merged.columns = CANONICAL

\* --------------------------------------------- harmonize.py: _norm_authors
\* str.lower() of one character (re.I), on the letters the pattern has.
lower(c) ==
    CASE c = "E" -> "e" [] c = "T" -> "t" [] c = "A" -> "a" [] c = "L" -> "l"
      [] OTHER -> c

\* str.replace(old, new) for one-character old and new.
replace(s, old, new) == [i \in 1..Len(s) |-> IF s[i] = old THEN new ELSE s[i]]

Drop(s, n) == SubSeq(s, n + 1, Len(s))
LeadingSpaces(s) == Len(s) - Len(lstrip(s))

ET_AL == <<"e", "t", " ", "a", "l">>

\* The length of the match of \s*et al\.?\s* (re.I) at the start of s, 0 when
\* there is none: every quantifier is greedy and none has to give back.
MatchEtAl(s) ==
    LET ws == LeadingSpaces(s)
        rest == Drop(s, ws)
    IN  IF Len(rest) >= 5 /\ [i \in 1..5 |-> lower(rest[i])] = ET_AL
        THEN LET after == Drop(rest, 5)
                 dot == IF after # <<>> /\ after[1] = "." THEN 1 ELSE 0
             IN  ws + 5 + dot + LeadingSpaces(Drop(after, dot))
        ELSE 0

\* re.sub(r"\s*et al\.?\s*", "", s, flags=re.I): leftmost matches, left to right.
RECURSIVE sub_et_al(_)
sub_et_al(s) ==
    IF s = <<>> THEN <<>>
    ELSE IF MatchEtAl(s) > 0 THEN sub_et_al(Drop(s, MatchEtAl(s)))
    ELSE <<Head(s)>> \o sub_et_al(Tail(s))

\* [p.strip() for p in parts if p.strip()]
stripped_parts(parts) ==
    SelectSeq([i \in 1..Len(parts) |-> strip(parts[i])], LAMBDA q : q # Empty)

norm_authors(t) ==
    IF isna(t) THEN Empty
    ELSE LET t1 == replace(replace(t, "|", ";"), ",", ";")
             t2 == sub_et_al(t1)
             parts == stripped_parts(split(t2, {";", "&"}))
         IN  join(Firsts(parts), <<";", " ">>)

\* ------------------------------------------------ inputs of the normalizer
SmithLee ==
    <<"S", "m", "i", "t", "h", ",", " ", "J", ".", ";", " ",
      "L", "e", "e", ",", " ", "K", ".", ";", " ",
      "S", "m", "i", "t", "h", ",", " ", "J", ".">>
JanetAllenBob ==
    <<"J", "a", "n", "e", "t", " ", "A", "l", "l", "e", "n", ";", " ", "B", "o", "b">>

NormPieces ==
    { <<"L", "e", "e">>, <<"K", "i", "m">>, <<";">>, <<",">>, <<"|">>, <<"&">>, <<" ">>,
      <<"e", "t", " ", "a", "l">>, <<"e", "t", " ", "a", "l", ".">>,
      <<"E", "t", " ", "A", "l", ".">> }

RECURSIVE Flatten(_)
Flatten(ps) == IF ps = <<>> THEN <<>> ELSE Head(ps) \o Flatten(Tail(ps))

NormInputs ==
    {NaN, SmithLee, JanetAllenBob}
    \cup {Flatten(ps) : ps \in SeqsUpTo(NormPieces, MaxNormPieces)}

InitNorm ==
    /\ txt \in NormInputs
    /\ normed = Empty
    /\ apc = "start"

\* normed = _norm_authors(txt)
NormAuthors ==
    /\ apc = "start"
    /\ normed' = norm_authors(txt)
    /\ apc' = "done"
    /\ UNCHANGED <<txt, mergeVars, graphVars, valueVars, harmVars, communityVars, frameVars, appVars>>

\* ----------------------------------------------- normalizer: the claims
\* C9: normalizing "Smith, J.; Lee, K.; Smith, J." yields exactly the two
\* entries "Smith, J." and "Lee, K.", in that order.
C9_LastFirstKept ==
    apc = "done" /\ txt = SmithLee =>
        Entries(normed) = << <<"S", "m", "i", "t", "h", ",", " ", "J", ".">>,
                             <<"L", "e", "e", ",", " ", "K", ".">> >>

AuthorDelims == {";", ",", "|", "&"}

EndsWith(s, suffix) ==
    /\ Len(s) >= Len(suffix)
    /\ [i \in 1..Len(suffix) |-> lower(s[Len(s) - Len(suffix) + i])] = suffix

RECURSIVE rstrip_chars(_, _)
rstrip_chars(s, chars) ==
    IF s # <<>> /\ s[Len(s)] \in chars THEN rstrip_chars(SubSeq(s, 1, Len(s) - 1), chars)
    ELSE s

\* The author text without an "et al" / "et al." token at its end (nothing
\* but whitespace and delimiters after it); the token stands alone: it is at
\* the start, or follows whitespace or a delimiter.
WithoutTrailingEtAl(s) ==
    LET r == rstrip_chars(s, Whitespace \cup AuthorDelims)
        n == IF EndsWith(r, ET_AL \o <<".">>) THEN 6
             ELSE IF EndsWith(r, ET_AL) THEN 5 ELSE 0
        before == SubSeq(r, 1, Len(r) - n)
    IN  IF n > 0 /\ (before = <<>> \/ before[Len(before)] \in Whitespace \cup AuthorDelims)
        THEN before
        ELSE s

\* C10: an "et al." token is removed only where it trails the author text;
\* every other author entry is returned with its characters unchanged apart
\* from surrounding whitespace.
C10_OnlyTrailingEtAl ==
    apc = "done" /\ isstr(txt) =>
        Entries(normed) =
            Firsts(stripped_parts(split(WithoutTrailingEtAl(txt), AuthorDelims)))

\* ------------------------------------------------------- Python values
\* Any value a cell or an argument can hold: a str, a missing value (NaN or
\* None), an int (by its digits) or a list of str; Raised is the outcome of a
\* call that ended in an exception.
Str(t) == [kind |-> "str", text |-> t, items |-> <<>>]
Nan == [kind |-> "nan", text |-> <<>>, items |-> <<>>]
NoneV == [kind |-> "none", text |-> <<>>, items |-> <<>>]
Num(digits) == [kind |-> "int", text |-> digits, items |-> <<>>]
Lst(items) == [kind |-> "list", text |-> <<>>, items |-> items]
Raised == [kind |-> "raise", text |-> <<>>, items |-> <<>>]

\* repr() of a list of str: ['a', 'b']
py_repr_list(items) ==
    <<"[">> \o join([i \in 1..Len(items) |-> <<"'">> \o items[i] \o <<"'">>],
                    <<",", " ">>)
    \o <<"]">>

\* str(v)
py_str(v) ==
    CASE v.kind = "str" -> v.text
      [] v.kind = "int" -> v.text
      [] v.kind = "nan" -> <<"n", "a", "n">>
      [] v.kind = "none" -> <<"N", "o", "n", "e">>
      [] v.kind = "list" -> py_repr_list(v.items)

\* "if pd.isna(v)": TRUE, FALSE, or "raise" (ValueError: the truth value of an
\* array with more than one element is ambiguous) for a list of two or more;
\* a one-element list is tested by its element.
if_isna(v) ==
    CASE v.kind \in {"nan", "none"} -> "true"
      [] v.kind = "list" /\ Len(v.items) >= 2 -> "raise"
      [] OTHER -> "false"

\* "if not v": the falsy values.
falsy(v) ==
    \/ v.kind = "none"
    \/ v.kind = "str" /\ v.text = <<>>
    \/ v.kind = "int" /\ v.text = <<"0">>
    \/ v.kind = "list" /\ v.items = <<>>

UPPERCASE == <<"A", "B", "C", "D", "E", "F", "G", "H", "I", "J", "K", "L", "M",
               "N", "O", "P", "Q", "R", "S", "T", "U", "V", "W", "X", "Y", "Z">>
LOWERCASE == <<"a", "b", "c", "d", "e", "f", "g", "h", "i", "j", "k", "l", "m",
               "n", "o", "p", "q", "r", "s", "t", "u", "v", "w", "x", "y", "z">>

\* str.lower()
str_lower(s) ==
    [i \in 1..Len(s) |->
        IF \E k \in 1..26 : UPPERCASE[k] = s[i]
        THEN LOWERCASE[CHOOSE k \in 1..26 : UPPERCASE[k] = s[i]]
        ELSE s[i]]

StartsWith(s, prefix) ==
    Len(s) >= Len(prefix) /\ SubSeq(s, 1, Len(prefix)) = prefix

\* str.replace(old, new) / re.sub of a literal: leftmost occurrences, left to
\* right, not overlapping.
RECURSIVE replace_all(_, _, _)
replace_all(s, old, new) ==
    IF s = <<>> THEN <<>>
    ELSE IF StartsWith(s, old) THEN new \o replace_all(Drop(s, Len(old)), old, new)
    ELSE <<Head(s)>> \o replace_all(Tail(s), old, new)

\* ------------------------------------------- harmonize.py: _norm_authors(any)
\* _norm_authors on any Python value.
norm_authors_value(v) ==
    IF if_isna(v) = "raise" THEN Raised
    ELSE IF if_isna(v) = "true" THEN Str(Empty)
    ELSE Str(norm_authors(py_str(v)))

\* --------------------------------------------- harmonize.py: _norm_keywords
\* re.sub(r"[\[\]']", "", s)
strip_brackets(s) == SelectSeq(s, LAMBDA c : c \notin {"[", "]", "'"})

\* [p.strip().lower() for p in parts if p.strip()]
cleaned_parts(parts) ==
    [i \in 1..Len(stripped_parts(parts)) |-> str_lower(stripped_parts(parts)[i])]

norm_keywords(v) ==
    IF if_isna(v) = "raise" THEN Raised
    ELSE IF if_isna(v) = "true" \/ strip(py_str(v)) = Empty THEN Lst(<<>>)
    ELSE Lst(Firsts(cleaned_parts(
                split(strip_brackets(py_str(v)), {";", ",", "/"}))))

\* -------------------------------------------------- harmonize.py: _norm_doi
DOI_PREFIXES ==
    { <<"h", "t", "t", "p", ":", "/", "/", "d", "o", "i", ".", "o", "r", "g", "/">>,
      <<"h", "t", "t", "p", "s", ":", "/", "/", "d", "o", "i", ".", "o", "r", "g", "/">>,
      <<"h", "t", "t", "p", ":", "/", "/", "d", "x", ".", "d", "o", "i", ".", "o", "r", "g", "/">>,
      <<"h", "t", "t", "p", "s", ":", "/", "/", "d", "x", ".", "d", "o", "i", ".", "o", "r", "g", "/">> }

\* The length of the match of https?://(dx\.)?doi\.org/ at the start of s, 0
\* when there is none.
MatchDoiPrefix(s) ==
    IF \E q \in DOI_PREFIXES : StartsWith(s, q)
    THEN Len(CHOOSE q \in DOI_PREFIXES : StartsWith(s, q))
    ELSE 0

\* re.sub(r"(https?://(dx\.)?doi\.org/)", "", s): every match, left to right.
RECURSIVE sub_doi_prefix(_)
sub_doi_prefix(s) ==
    IF s = <<>> THEN <<>>
    ELSE IF MatchDoiPrefix(s) > 0 THEN sub_doi_prefix(Drop(s, MatchDoiPrefix(s)))
    ELSE <<Head(s)>> \o sub_doi_prefix(Tail(s))

norm_doi(v) ==
    IF if_isna(v) = "raise" THEN Raised
    ELSE IF if_isna(v) = "true" THEN Str(Empty)
    ELSE Str(sub_doi_prefix(str_lower(strip(py_str(v)))))

\* ----------------------------------------------- analysis.py: relabel_country
\* The name.replace(long, short) calls, in the order of the code.
COUNTRY_ALIASES ==
    << <<<<"U", "n", "i", "t", "e", "d", " ", "S", "t", "a", "t", "e", "s", " ", "o", "f", " ", "A", "m", "e", "r", "i", "c", "a">>,
         <<"U", "S", "A">>>>,
       <<<<"U", "n", "i", "t", "e", "d", " ", "K", "i", "n", "g", "d", "o", "m">>, <<"U", "K">>>>,
       <<<<"P", "e", "o", "p", "l", "e", "s", " ", "R", " ", "C", "h", "i", "n", "a">>, <<"C", "h", "i", "n", "a">>>>,
       <<<<"K", "o", "r", "e", "a", " ", "S", "o", "u", "t", "h">>, <<"S", "o", "u", "t", "h", " ", "K", "o", "r", "e", "a">>>>,
       <<<<"I", "r", "a", "n", " ", "I", "s", "l", "a", "m", "i", "c", " ", "R", "e", "p", "u", "b", "l", "i", "c">>, <<"I", "r", "a", "n">>>> >>

RECURSIVE apply_aliases(_, _)
apply_aliases(name, aliases) ==
    IF aliases = <<>> THEN name
    ELSE apply_aliases(replace_all(name, aliases[1][1], aliases[1][2]), Tail(aliases))

relabel_country(v) ==
    IF falsy(v) THEN Str(Empty)
    ELSE Str(apply_aliases(strip(py_str(v)), COUNTRY_ALIASES))

\* ------------------------------------------ inputs of the value normalizers
KeywordPieces ==
    { <<"a", "i">>,
      <<"A", "I">>,
      <<"m", "l">>,
      <<";">>,
      <<",">>,
      <<"/">>,
      <<" ">>,
      <<"[">>,
      <<"]">>,
      <<"'">> }

DoiPieces ==
    { <<"h", "t", "t", "p", "s", ":", "/", "/", "d", "o", "i", ".", "o", "r", "g", "/">>,
      <<"h", "t", "t", "p", ":", "/", "/", "d", "x", ".", "d", "o", "i", ".", "o", "r", "g", "/">>,
      <<"H", "T", "T", "P", "S", ":", "/", "/", "D", "O", "I", ".", "O", "R", "G", "/">>,
      <<"1", "0", ".", "1", "/", "x">>,
      <<"1", "0", ".", "1", "/", "X">>,
      <<" ">>,
      <<"h", "t", "t", "p", "s", ":", "/", "/", "d", "o", "i", ".">>,
      <<"o", "r", "g", "/">> }

CountryPieces ==
    { <<"U", "n", "i", "t", "e", "d", " ", "S", "t", "a", "t", "e", "s", " ", "o", "f", " ", "A", "m", "e", "r", "i", "c", "a">>,
      <<"U", "n", "i", "t", "e", "d", " ", "K", "i", "n", "g", "d", "o", "m">>,
      <<"P", "e", "o", "p", "l", "e", "s", " ", "R", " ", "C", "h", "i", "n", "a">>,
      <<"K", "o", "r", "e", "a", " ", "S", "o", "u", "t", "h">>,
      <<"I", "r", "a", "n", " ", "I", "s", "l", "a", "m", "i", "c", " ", "R", "e", "p", "u", "b", "l", "i", "c">>,
      <<"F", "r", "a", "n", "c", "e">>,
      <<" ">>,
      <<" ", "o", "f", " ", "G", "r", "e", "a", "t", " ", "B", "r", "i", "t", "a", "i", "n">> }

\* A keyword cell with a keyword repeated in another case: " AI; ml, ai/ML"
MixedCaseKeywords ==
    <<" ", "A", "I", ";", " ", "m", "l", ",", " ", "a", "i", "/", "M", "L">>

\* Values that are no str: missing, numbers, lists of one and of two entries.
NonTextValues ==
    { Nan, NoneV, Num(<<"4", "2">>), Num(<<"0">>),
      Lst(<< <<"a", "i">> >>), Lst(<< <<"a", "i">>, <<"m", "l">> >>) }

TextsOf(pieces) == {Str(Flatten(ps)) : ps \in SeqsUpTo(pieces, MaxValuePieces)}

ValueFns == {"authors", "keywords", "doi", "country"}

ValueInputs(fn) ==
    NonTextValues \cup
    CASE fn = "authors" -> {Str(SmithLee), Str(JanetAllenBob)}
      [] fn = "keywords" -> TextsOf(KeywordPieces) \cup {Str(MixedCaseKeywords)}
      [] fn = "doi" -> TextsOf(DoiPieces)
      [] fn = "country" -> TextsOf(CountryPieces)

InitValue ==
    /\ vfn \in ValueFns
    /\ vin \in ValueInputs(vfn)
    /\ vout = Nan
    /\ vpc = "start"

IdleValue == vfn = "none" /\ vin = Nan /\ vout = Nan /\ vpc = "idle"

\* vout = _norm_authors(vin)
NormAuthorsValue ==
    /\ vpc = "start" /\ vfn = "authors"
    /\ vout' = norm_authors_value(vin)
    /\ vpc' = "done"
    /\ UNCHANGED <<vfn, vin, mergeVars, normVars, graphVars, harmVars, communityVars, frameVars, appVars>>

\* vout = _norm_keywords(vin)
NormKeywords ==
    /\ vpc = "start" /\ vfn = "keywords"
    /\ vout' = norm_keywords(vin)
    /\ vpc' = "done"
    /\ UNCHANGED <<vfn, vin, mergeVars, normVars, graphVars, harmVars, communityVars, frameVars, appVars>>

\* vout = _norm_doi(vin)
NormDoi ==
    /\ vpc = "start" /\ vfn = "doi"
    /\ vout' = norm_doi(vin)
    /\ vpc' = "done"
    /\ UNCHANGED <<vfn, vin, mergeVars, normVars, graphVars, harmVars, communityVars, frameVars, appVars>>

\* vout = relabel_country(vin)
RelabelCountry ==
    /\ vpc = "start" /\ vfn = "country"
    /\ vout' = relabel_country(vin)
    /\ vpc' = "done"
    /\ UNCHANGED <<vfn, vin, mergeVars, normVars, graphVars, harmVars, communityVars, frameVars, appVars>>

\* ---------------------------------------------------------------- C11
\* The entries of a normalized authors value: the text between the "; "
\* separators, empty entries included.
Listed(a) ==
    IF a = Empty THEN <<>>
    ELSE [i \in 1..Len(split(a, {";"})) |-> strip(split(a, {";"})[i])]

\* The entries of a raw author cell as they are met, before deduplication.
AuthorsSeen(t) ==
    IF isna(t) THEN <<>>
    ELSE stripped_parts(split(sub_et_al(replace(replace(t, "|", ";"), ",", ";")),
                              {";", "&"}))

\* The entries of a raw keyword cell as they are met, before deduplication.
KeywordsSeen(v) ==
    cleaned_parts(split(strip_brackets(py_str(v)), {";", ",", "/"}))

FirstSeen(seen, e) == Min({i \in 1..Len(seen) : seen[i] = e})

\* out lists every entry of seen, none twice, in the order of their first
\* occurrence in seen.
InFirstSeenOrder(seen, out) ==
    /\ Range(out) = Range(seen)
    /\ \A i, j \in 1..Len(out) : i < j => FirstSeen(seen, out[i]) < FirstSeen(seen, out[j])

CleanAuthors(seen, out) ==
    /\ \A i \in 1..Len(out) : out[i] # Empty
    /\ \A i, j \in 1..Len(out) : out[i] = out[j] => i = j
    /\ InFirstSeenOrder(seen, out)

CleanKeywords(seen, out) ==
    /\ \A i \in 1..Len(out) : out[i] # Empty /\ str_lower(out[i]) = out[i]
    /\ \A i, j \in 1..Len(out) : str_lower(out[i]) = str_lower(out[j]) => i = j
    /\ InFirstSeenOrder(seen, out)

\* C11: whenever _norm_authors returns, its entries are non-empty, pairwise
\* different and in first-seen order; whenever _norm_keywords returns, its
\* entries are non-empty, lowercase, pairwise different ignoring case and in
\* first-seen order.
C11_CleanEntries ==
    /\ apc = "done" => CleanAuthors(AuthorsSeen(txt), Listed(normed))
    /\ vpc = "done" /\ vfn = "authors" /\ vout.kind = "str" /\ if_isna(vin) = "false" =>
            CleanAuthors(AuthorsSeen(py_str(vin)), Listed(vout.text))
    /\ vpc = "done" /\ vfn = "keywords" /\ vout.kind = "list" /\ if_isna(vin) = "false" =>
            CleanKeywords(KeywordsSeen(vin), vout.items)

\* The keyword cell " AI; ml, ai/ML" has been normalized: four keywords
\* met, two kept.
C11_Witness ==
    /\ vpc = "done" /\ vfn = "keywords" /\ vin = Str(MixedCaseKeywords)
    /\ Len(KeywordsSeen(vin)) = 4 /\ Len(vout.items) = 2

\* ---------------------------------------------------------------- C12
\* An absent, empty or whitespace-only value.
Blank(v) == v.kind \in {"nan", "none"} \/ (v.kind = "str" /\ strip(v.text) = Empty)

\* C12: _norm_doi maps a blank input to "", and every other input to a text
\* that is lowercase, has no whitespace at either end, does not begin with a
\* resolver URL prefix, and is left unchanged by a second normalization.
C12_NormalizedDoi ==
    vpc = "done" /\ vfn = "doi" /\ vout.kind = "str" =>
        IF Blank(vin) THEN vout.text = Empty
        ELSE /\ str_lower(vout.text) = vout.text
             /\ strip(vout.text) = vout.text
             /\ MatchDoiPrefix(vout.text) = 0
             /\ norm_doi(vout) = vout

\* ---------------------------------------------------------------- C13
\* C13: each of the four value normalizers returns for every input value, and
\* returns the empty text or the empty list for an absent input.
C13_NeverFail ==
    vpc = "done" =>
        /\ vout.kind # "raise"
        /\ vin.kind \in {"nan", "none"} => vout \in {Str(Empty), Lst(<<>>)}

\* ---------------------------------------------------------------- C14
LongForms == {COUNTRY_ALIASES[i][1] : i \in 1..Len(COUNTRY_ALIASES)}
ShortFormOf(name) ==
    COUNTRY_ALIASES[CHOOSE i \in 1..Len(COUNTRY_ALIASES) : COUNTRY_ALIASES[i][1] = name][2]

\* C14: relabel_country returns a name equal to a long form of the table as its
\* short form, and every other name exactly as given.
C14_OnlyListedAliases ==
    vpc = "done" /\ vfn = "country" /\ vin.kind = "str" =>
        vout = IF vin.text \in LongForms THEN Str(ShortFormOf(vin.text)) ELSE vin

\* ------------------------------------------------ harmonize.py: harmonizers
SCOPUS_MAP ==
    << <<"Authors", "authors">>, <<"Author(s) ID", "author_ids">>,
       <<"Title", "title">>, <<"Year", "year">>, <<"Source title", "source">>,
       <<"Cited by", "cited_by">>, <<"Author Keywords", "author_keywords">>,
       <<"Index Keywords", "index_keywords">>, <<"Affiliations", "affiliations">>,
       <<"DOI", "doi">>, <<"Abstract", "abstract">>, <<"References", "references">>,
       <<"Document Type", "document_type">>, <<"Country/Territory", "countries">> >>

WOS_MAP ==
    << <<"AU", "authors">>, <<"AF", "authors_full">>, <<"TI", "title">>,
       <<"PY", "year">>, <<"SO", "source">>, <<"TC", "cited_by">>,
       <<"DE", "author_keywords">>, <<"ID", "index_keywords">>,
       <<"C1", "affiliations">>, <<"DI", "doi">>, <<"AB", "abstract">>,
       <<"CR", "references">>, <<"DT", "document_type">>, <<"CU", "countries">> >>

\* mapping.get(c, c)
Renamed(mapping, c) ==
    IF \E i \in 1..Len(mapping) : mapping[i][1] = c
    THEN mapping[CHOOSE i \in 1..Len(mapping) : mapping[i][1] = c][2]
    ELSE c

\* df.rename(columns=mapping): the labels; two raw columns may get one label.
renamed_columns(df, mapping) ==
    [i \in 1..Len(df.columns) |-> Renamed(mapping, df.columns[i])]

HasDuplicates(xs) == \E i, j \in 1..Len(xs) : i # j /\ xs[i] = xs[j]

\* df.rename(columns=mapping).copy(), for labels that stay distinct.
rename(df, mapping) ==
    LET raw_of(c) == CHOOSE r \in Range(df.columns) : Renamed(mapping, r) = c
    IN  [columns |-> renamed_columns(df, mapping),
         rows |-> [i \in 1..Len(df.rows) |->
                      [c \in Range(renamed_columns(df, mapping)) |->
                          df.rows[i][raw_of(c)]]]]

\* df[col] = cells: a new column goes last, an existing one keeps its place;
\* cells holds the value for each row.
assign(df, col, cells) ==
    [columns |-> IF col \in Range(df.columns) THEN df.columns
                 ELSE Append(df.columns, col),
     rows |-> [i \in 1..Len(df.rows) |->
                  [c \in Range(df.columns) \cup {col} |->
                      IF c = col THEN cells[i] ELSE df.rows[i][c]]]]

\* A scalar assigned to a column: the value in every row.
broadcast(df, value) == [i \in 1..Len(df.rows) |-> value]

\* df[col], the cells of a column
column(df, col) == [i \in 1..Len(df.rows) |-> df.rows[i][col]]

\* if "authors" in df: df["authors"] = df["authors"].map(_norm_authors)
map_authors(df) ==
    IF "authors" \in Range(df.columns)
    THEN assign(df, "authors",
                [i \in 1..Len(df.rows) |-> norm_authors_value(df.rows[i]["authors"])])
    ELSE df

\* if "doi" in df: df["doi"] = df["doi"].map(_norm_doi)
map_doi(df) ==
    IF "doi" \in Range(df.columns)
    THEN assign(df, "doi", [i \in 1..Len(df.rows) |-> norm_doi(df.rows[i]["doi"])])
    ELSE df

\* if k in df: df[k] = df[k].map(_norm_keywords)
map_keywords(df, k) ==
    IF k \in Range(df.columns)
    THEN assign(df, k, [i \in 1..Len(df.rows) |-> norm_keywords(df.rows[i][k])])
    ELSE df

\* df.reindex(columns=cols, fill_value=fill)
reindex_columns(df, cols, fill) ==
    [columns |-> cols,
     rows |-> [i \in 1..Len(df.rows) |->
                  [c \in Range(cols) |->
                      IF c \in Range(df.columns) THEN df.rows[i][c] ELSE fill]]]

\* What a call hands back: a table, a loader's info dict, or an exception.
Returned(df) == [kind |-> "table", source |-> "", df |-> df]
Info(src, df) == [kind |-> "info", source |-> src, df |-> df]
Failed == [kind |-> "raise", source |-> "", df |-> EmptyFrame(<<>>)]

SCOPUS_TAG == <<"S", "c", "o", "p", "u", "s">>
WOS_TAG == <<"W", "o", "S">>

\* The normalization of the textual fields and the final reindex, shared by
\* both harmonizers.
normalize_fields(df) ==
    LET d1 == map_authors(df)
        d2 == map_doi(d1)
        d3 == map_keywords(d2, "author_keywords")
        d4 == map_keywords(d3, "index_keywords")
    IN  reindex_columns(d4, CANONICAL, Str(Empty))

\* harmonize_scopus(df). When two raw columns get one label after the rename,
\* reindex raises ValueError (cannot reindex on an axis with duplicate labels).
harmonize_scopus(df) ==
    IF HasDuplicates(renamed_columns(df, SCOPUS_MAP)) THEN Failed
    ELSE Returned(normalize_fields(
            assign(rename(df, SCOPUS_MAP), "source_db", broadcast(df, Str(SCOPUS_TAG)))))

\* if "authors" not in df and "authors_full" in df: df["authors"] = df["authors_full"]
authors_fallback(df) ==
    IF "authors" \notin Range(df.columns) /\ "authors_full" \in Range(df.columns)
    THEN assign(df, "authors", column(df, "authors_full"))
    ELSE df

\* harmonize_wos(df)
harmonize_wos(df) ==
    IF HasDuplicates(renamed_columns(df, WOS_MAP)) THEN Failed
    ELSE Returned(normalize_fields(authors_fallback(
            assign(rename(df, WOS_MAP), "source_db", broadcast(df, Str(WOS_TAG))))))

\* ------------------------------------------------------------- utils_io.py
scopus_keys == {"Authors", "Source title", "Author(s) ID", "Affiliations"}
wos_keys == {"AU", "TI", "SO", "C1", "DI"}

\* detect_source(df)
detect_source(df) ==
    IF Range(df.columns) \cap scopus_keys # {} THEN "Scopus"
    ELSE IF Range(df.columns) \cap wos_keys # {} THEN "Web of Science"
    ELSE "Unknown"

\* read_any_table, from the parsed table on: detect, harmonize, build info.
read_any_table(df) ==
    LET src == detect_source(df)
        res == IF src = "Scopus" THEN harmonize_scopus(df)
               ELSE IF src = "Web of Science" THEN harmonize_wos(df)
               ELSE Returned(df)
    IN  IF res.kind = "raise" THEN Failed ELSE Info(src, res.df)

\* ------------------------------------------------ inputs of the harmonizers
\* The raw columns a table is drawn from: Scopus and WoS export columns, an
\* unmapped column, and an unmapped column that has a canonical name.
RawColumns ==
    <<"Title", "Authors", "Year", "Cited by", "Author Keywords", "DOI",
      "TI", "AU", "AF", "PY", "Notes", "title">>

RawRowKinds == {"clean", "messy", "missing"}

\* The cell of raw column c in a row of the given kind.
RawCell(c, kind) ==
    IF kind = "missing" THEN Nan
    ELSE IF c \in {"Title", "TI", "title", "Notes"}
    THEN IF kind = "clean" THEN Str(<<"T">>) ELSE Str(<<"U">>)
    ELSE IF c \in {"Authors", "AU", "AF"}
    THEN IF kind = "clean" THEN Str(<<"L", "e", "e", ";", " ", "K", "i", "m">>)
         ELSE Str(<<"K", "i", "m", ";", " ", "K", "i", "m">>)
    ELSE IF c \in {"Year", "PY"}
    THEN IF kind = "clean" THEN Num(<<"2", "0", "2", "0">>) ELSE Str(<<"2", "0", "a", "0">>)
    ELSE IF c = "Cited by"
    THEN IF kind = "clean" THEN Num(<<"7">>) ELSE Str(<<"n", "/", "a">>)
    ELSE IF c = "Author Keywords"
    THEN IF kind = "clean" THEN Str(<<"A", "I", ";", " ", "m", "l">>) ELSE Str(<<"a", "i", ";", "A", "I">>)
    ELSE IF kind = "clean" THEN Str(<<"h", "t", "t", "p", "s", ":", "/", "/", "d", "o", "i", ".", "o", "r", "g", "/", "1", "0", ".", "1", "/", "X">>)
         ELSE Str(<<"1", "0", ".", "1", "/", "x">>)

\* Subsequences of xs with at most n elements.
RECURSIVE SubSeqsUpTo(_, _)
SubSeqsUpTo(xs, n) ==
    IF xs = <<>> \/ n = 0 THEN {<<>>}
    ELSE SubSeqsUpTo(Tail(xs), n)
         \cup {<<Head(xs)>> \o t : t \in SubSeqsUpTo(Tail(xs), n - 1)}

RawTable(cols, kinds) ==
    [columns |-> cols,
     rows |-> [i \in 1..Len(kinds) |-> [c \in Range(cols) |-> RawCell(c, kinds[i])]]]

\* A table without columns has no rows.
RawTables ==
    {RawTable(cols, kinds) : cols \in SubSeqsUpTo(RawColumns, MaxRawColumns) \ {<<>>},
                             kinds \in SeqsUpTo(RawRowKinds, MaxRawRows)}
    \cup {EmptyFrame(<<>>)}

HarmonizeFns == {"scopus", "wos", "read_any_table"}

InitHarm ==
    /\ raw \in RawTables
    /\ hfn \in HarmonizeFns
    /\ hout = Returned(EmptyFrame(<<>>))
    /\ hpc = "start"

IdleHarm ==
    /\ raw = EmptyFrame(<<>>) /\ hfn = "none"
    /\ hout = Returned(EmptyFrame(<<>>)) /\ hpc = "idle"

\* hout = harmonize_scopus(raw)
HarmonizeScopus ==
    /\ hpc = "start" /\ hfn = "scopus"
    /\ hout' = harmonize_scopus(raw)
    /\ hpc' = "done"
    /\ UNCHANGED <<raw, hfn, mergeVars, normVars, graphVars, valueVars, communityVars, frameVars, appVars>>

\* hout = harmonize_wos(raw)
HarmonizeWos ==
    /\ hpc = "start" /\ hfn = "wos"
    /\ hout' = harmonize_wos(raw)
    /\ hpc' = "done"
    /\ UNCHANGED <<raw, hfn, mergeVars, normVars, graphVars, valueVars, communityVars, frameVars, appVars>>

\* hout = read_any_table(file), the file parsed to the table raw
ReadAnyTable ==
    /\ hpc = "start" /\ hfn = "read_any_table"
    /\ hout' = read_any_table(raw)
    /\ hpc' = "done"
    /\ UNCHANGED <<raw, hfn, mergeVars, normVars, graphVars, valueVars, communityVars, frameVars, appVars>>

\* ---------------------------------------------------------------- C15
TagOf(fn) == IF fn = "scopus" THEN SCOPUS_TAG ELSE WOS_TAG

\* C15: for every raw table, harmonize_scopus and harmonize_wos return a table
\* whose columns are CANONICAL in order, with as many rows as the raw table
\* and the source tag in source_db of every row.
C15_CanonicalTable ==
    hpc = "done" /\ hfn \in {"scopus", "wos"} =>
        /\ hout.kind = "table"
        /\ hout.df.columns = CANONICAL
        /\ Len(hout.df.rows) = Len(raw.rows)
        /\ \A i \in 1..Len(hout.df.rows) : hout.df.rows[i]["source_db"] = Str(TagOf(hfn))

\* ---------------------------------------------------------------- C16
MapOf(fn) == IF fn = "scopus" THEN SCOPUS_MAP ELSE WOS_MAP

\* The raw table has no column that supplies the canonical field f.
Lacks(table, fn, f) ==
    /\ f \notin Range(renamed_columns(table, MapOf(fn)))
    /\ ~(fn = "wos" /\ f = "authors"
         /\ "authors_full" \in Range(renamed_columns(table, WOS_MAP)))

MultiValued == {"authors", "author_keywords", "index_keywords", "affiliations", "countries"}
\* The multi-valued fields the code holds as a list; the others are held as
\* delimited text, whose empty sequence is the empty text.
ListValued == {"author_keywords", "index_keywords"}

DefaultOf(f) == IF f \in ListValued THEN Lst(<<>>) ELSE Str(Empty)

\* C16: a canonical field whose source column the raw table lacks is, in every
\* harmonized record, the empty text, or the empty sequence when the field is
\* multi-valued.
C16_DocumentedDefaults ==
    hpc = "done" /\ hfn \in {"scopus", "wos"} /\ hout.kind = "table" =>
        \A f \in Range(CANONICAL) \ {"source_db"} :
            Lacks(raw, hfn, f) =>
                \A i \in 1..Len(hout.df.rows) : hout.df.rows[i][f] = DefaultOf(f)

\* ---------------------------------------------------------------- C17
Digits == {"0", "1", "2", "3", "4", "5", "6", "7", "8", "9"}
IsInt(v) == v.kind = "int"
IsNonNegInt(v) == v.kind = "int" /\ v.text # <<>> /\ \A i \in 1..Len(v.text) : v.text[i] \in Digits
IsAbsent(v) == v.kind \in {"nan", "none"}

\* C17: in every harmonized record year is an integer or absent and cited_by
\* is a non-negative integer, and no record is lost.
C17_TypedYearAndCitations ==
    hpc = "done" /\ hfn \in {"scopus", "wos"} /\ hout.kind = "table" =>
        /\ Len(hout.df.rows) = Len(raw.rows)
        /\ \A i \in 1..Len(hout.df.rows) :
              /\ IsInt(hout.df.rows[i]["year"]) \/ IsAbsent(hout.df.rows[i]["year"])
              /\ IsNonNegInt(hout.df.rows[i]["cited_by"])

\* ---------------------------------------------------------------- C18
SourceColumns(mapping) == {mapping[i][1] : i \in 1..Len(mapping)}

\* The table has columns, and none is a column of a Scopus or of a WoS export.
NoSignature(table) ==
    /\ table.columns # <<>>
    /\ Range(table.columns) \cap (SourceColumns(SCOPUS_MAP) \cup SourceColumns(WOS_MAP)) = {}

\* C18: for a raw table that matches no source signature the loader and the
\* harmonizers report a failure to the caller; they return neither a table of
\* defaults nor the raw table.
C18_SchemaMismatchReported ==
    hpc = "done" /\ NoSignature(raw) => hout.kind = "raise"

\* -------------------------------------------------------------- network.py
\* An nx.Graph: its node set and the weight attribute of each edge, an edge
\* being the set of its two end nodes.
EmptyGraph == [nodes |-> {}, weight |-> <<>>]

\* _normalize_entities(txt)
normalize_entities(t) ==
    IF ~isstr(t) THEN <<>> ELSE stripped_parts(split(t, {";"}))

\* The pairs the loops would visit with "for j in range(i, ...)": the pair of
\* a name with itself among them.
PairsWithSelf(names) == {{a, b} : a \in names, b \in names}

\* The (a, b) the loops "for i ... for j in range(i + 1, ...)" visit over
\* sorted(set(names)): every unordered pair of distinct names, once.
Pairs(names) == {{a, b} : a \in names, b \in names} \ {{a} : a \in names}

\* G.add_edge(a, b, weight=1) for every pair of one record, whether the edge
\* exists or not.
add_edges_unit(G, names) ==
    [nodes |-> G.nodes \cup UNION Pairs(names),
     weight |-> [e \in DOMAIN G.weight \cup Pairs(names) |->
                    IF e \in Pairs(names) THEN 1 ELSE G.weight[e]]]

\* For every pair of one record: w = G[a][b]["weight"] + 1 if G.has_edge(a, b)
\* else 1; G.add_edge(a, b, weight=w). add_edge also adds the end nodes.
add_edges(G, names) ==
    [nodes |-> G.nodes \cup UNION Pairs(names),
     weight |-> [e \in DOMAIN G.weight \cup Pairs(names) |->
                    IF e \in Pairs(names)
                    THEN IF e \in DOMAIN G.weight THEN G.weight[e] + 1 ELSE 1
                    ELSE G.weight[e]]]

\* G.degree()[n]
degree(G, n) == Cardinality({e \in DOMAIN G.weight : n \in e})

\* G.subgraph(keep).copy(): names of keep that are no node of G are ignored.
subgraph(G, keep) ==
    [nodes |-> G.nodes \cap keep,
     weight |-> [e \in {d \in DOMAIN G.weight : d \subseteq keep} |-> G.weight[e]]]

\* _subgraph_prune(G, min_degree)
subgraph_prune(G, min_degree) ==
    subgraph(G, {n \in G.nodes : degree(G, n) >= min_degree})

\* nx.set_node_attributes(G, dict(G.degree(weight="weight")), "degree"): the
\* weights of the edges of a node summed.
with_weighted_degree(G) ==
    [nodes |-> G.nodes, weight |-> G.weight,
     degree |-> [n \in G.nodes |->
                    Cardinality({<<e, k>> \in (DOMAIN G.weight) \X (1..MaxGraphTokens) :
                                    n \in e /\ k <= G.weight[e]})]]

\* nx.set_node_attributes(G, dict(G.degree()), "degree")
with_degree(G) ==
    [nodes |-> G.nodes, weight |-> G.weight,
     degree |-> [n \in G.nodes |-> degree(G, n)]]

\* df["authors"].fillna("")
fillna_empty(cell) == IF isna(cell) THEN Empty ELSE cell

\* The loop of coauthorship_graph over the records, first to last.
RECURSIVE coauthor_edges(_, _)
coauthor_edges(G, col) ==
    IF col = <<>> THEN G
    ELSE coauthor_edges(
            add_edges(G, Range(normalize_entities(fillna_empty(Head(col))))),
            Tail(col))

coauthorship_graph(col, k) ==
    with_degree(subgraph_prune(coauthor_edges(EmptyGraph, col), k))

\* A cell of a keyword column: a Python list of keywords, or anything else.
ListCell(items) == [list |-> TRUE, items |-> items]
OtherCell == [list |-> FALSE, items |-> <<>>]

\* if not isinstance(row, list) or len(row) < 2: continue
skipped(cell) == ~cell.list \/ Len(cell.items) < 2

\* for kw in row: freq[kw] += 1
count(freq, names) ==
    [k \in DOMAIN freq \cup names |->
        IF k \in names THEN (IF k \in DOMAIN freq THEN freq[k] + 1 ELSE 1)
        ELSE freq[k]]

\* The loop of keyword_cooccurrence_graph: <<freq, G>> after all records.
RECURSIVE keyword_loop(_, _, _)
keyword_loop(freq, G, col) ==
    IF col = <<>> THEN <<freq, G>>
    ELSE IF skipped(Head(col)) THEN keyword_loop(freq, G, Tail(col))
    ELSE LET row == Range(Head(col).items)
         IN  keyword_loop(count(freq, row), add_edges(G, row), Tail(col))

\* <<G2, freq>> of keyword_cooccurrence_graph(df, field, min_freq); the node
\* attribute freq is set on the nodes of G2 only.
keyword_cooccurrence_graph(col, k) ==
    LET r == keyword_loop(<<>>, EmptyGraph, col)
        freq == r[1]
        nodes == {n \in DOMAIN freq : freq[n] >= k}
        g == with_degree(subgraph(r[2], nodes))
    IN  <<[nodes |-> g.nodes, weight |-> g.weight, degree |-> g.degree,
           freq |-> [n \in g.nodes |-> freq[n]]],
          freq>>

\* ---------------------------------------------- inputs of the graph builders
Names == {<<"A">>, <<"B">>, <<"C">>}
RowBreak == <<"|">>
GraphTokens == Names \cup {RowBreak}

\* The entity lists of the records a token sequence spells: a RowBreak ends a
\* record.
RECURSIVE RecordsOf(_)
RecordsOf(toks) ==
    IF \A i \in 1..Len(toks) : toks[i] # RowBreak
    THEN <<toks>>
    ELSE LET i == CHOOSE k \in 1..Len(toks) :
                    toks[k] = RowBreak /\ \A m \in 1..(k - 1) : toks[m] # RowBreak
         IN  <<SubSeq(toks, 1, i - 1)>> \o RecordsOf(SubSeq(toks, i + 1, Len(toks)))

\* The authors column ["A;B;C", "A;B", "B;C;D"].
ScenarioRecords ==
    << << <<"A">>, <<"B">>, <<"C">> >>,
       << <<"A">>, <<"B">> >>,
       << <<"B">>, <<"C">>, <<"D">> >> >>

GraphInputs == {ScenarioRecords} \cup {RecordsOf(t) : t \in SeqsUpTo(GraphTokens, MaxGraphTokens)}

\* The authors cells ("A;B") and the keyword cells (["A", "B"]) of the records.
AuthorsColumn(recs) == [i \in 1..Len(recs) |-> join(recs[i], <<";">>)]
KeywordColumn(recs) == [i \in 1..Len(recs) |-> ListCell(recs[i])]

InitGraph ==
    /\ \E recs \in GraphInputs :
          \/ acol = AuthorsColumn(recs) /\ kcol = KeywordColumn(recs)
          \/ acol = <<NaN>> \o AuthorsColumn(recs)
             /\ kcol = <<OtherCell>> \o KeywordColumn(recs)
    /\ min_freq \in 0..MaxMinFreq
    /\ G2 = [nodes |-> {}, weight |-> <<>>, degree |-> <<>>]
    /\ KG2 = [nodes |-> {}, weight |-> <<>>, degree |-> <<>>]
    /\ kfreq = <<>>
    /\ Gfull = EmptyGraph
    /\ KGfull = EmptyGraph
    /\ gpc = "start"

\* G2 = coauthorship_graph(df, min_freq)
Coauthorship ==
    /\ gpc = "start"
    /\ Gfull' = coauthor_edges(EmptyGraph, acol)
    /\ G2' = coauthorship_graph(acol, min_freq)
    /\ gpc' = "coauthors"
    /\ UNCHANGED <<acol, kcol, min_freq, KG2, kfreq, KGfull, mergeVars, normVars, valueVars, harmVars, communityVars, frameVars, appVars>>

\* KG2, kfreq = keyword_cooccurrence_graph(df, field, min_freq)
KeywordCooccurrence ==
    /\ gpc = "coauthors"
    /\ KG2' = keyword_cooccurrence_graph(kcol, min_freq)[1]
    /\ kfreq' = keyword_cooccurrence_graph(kcol, min_freq)[2]
    /\ KGfull' = keyword_loop(<<>>, EmptyGraph, kcol)[2]
    /\ gpc' = "keywords"
    /\ UNCHANGED <<acol, kcol, min_freq, G2, Gfull, mergeVars, normVars, valueVars, harmVars, communityVars, frameVars, appVars>>

\* ------------------------------------- app.py: the merged table to the graphs
\* The records of the runs on little or no data: title cell missing (with and
\* without DOI), the authors field empty or missing in a titled record, and
\* one full record.
AbsencePool ==
    { Rec(NaN, AB, Y2020, D1),
      Rec(NaN, AB, Y2020, Empty),
      Rec(T_, Empty, Y2020, Empty),
      Rec(T_, NaN, NaN, Empty),
      Rec(T_, AB, Y2020, D1) }

AbsenceInputs ==
    {<<>>} \cup {TablesOf(t) : t \in SeqsUpTo(AbsencePool \cup {Break}, MaxAbsenceTokens)}

InitAbsence ==
    /\ dfs \in AbsenceInputs
    /\ merged = None
    /\ remerged = None
    /\ mpc = "start"
    /\ acol = <<>>
    /\ kcol = <<>>
    /\ min_freq \in 0..MaxMinFreq
    /\ G2 = [nodes |-> {}, weight |-> <<>>, degree |-> <<>>]
    /\ KG2 = [nodes |-> {}, weight |-> <<>>, degree |-> <<>>]
    /\ kfreq = <<>>
    /\ Gfull = EmptyGraph
    /\ KGfull = EmptyGraph
    /\ gpc = "wait"

\* df = st.session_state["merged"]: df["authors"] and df[field] of the merged
\* table. The keyword cells of these records hold no keyword: the fill value
\* "" of a raw table without the column, or the empty list of _norm_keywords.
TakeMerged ==
    /\ mpc = "merged"
    /\ gpc = "wait"
    /\ acol' = [i \in 1..Len(merged.rows) |-> merged.rows[i]["authors"]]
    /\ \E cell \in {OtherCell, ListCell(<<>>)} :
          kcol' = [i \in 1..Len(merged.rows) |-> cell]
    /\ gpc' = "start"
    /\ UNCHANGED <<min_freq, G2, KG2, kfreq, Gfull, KGfull,
                   mergeVars, normVars, valueVars, harmVars, communityVars, frameVars, appVars>>

\* --------------------------------------------- objects and names of a call
\* The objects of a call, in order of creation (the arguments first), and the
\* object each local name is bound to. Creating an object binds a name to a
\* new object; a store through a name changes the object the name is bound to,
\* whoever else holds it.
Alloc(h, name, value) ==
    [objs |-> Append(h.objs, value),
     bind |-> (name :> Len(h.objs) + 1) @@ h.bind]
Store(h, name, value) == [h EXCEPT !.objs[h.bind[name]] = value]
Load(h, name) == h.objs[h.bind[name]]
Return(h, name) == [h EXCEPT !.bind = ("return" :> h.bind[name]) @@ h.bind]

\* df.rename(columns=mapping, inplace=True): the labels of the argument itself
\* are replaced and df stays bound to it.
rename_in_place(h, mapping) ==
    [objs |-> [h.objs EXCEPT ![1] = rename(h.objs[1], mapping)],
     bind |-> ("df" :> 1) @@ h.bind]

\* df = df.rename(columns=mapping).copy(): the parameter is rebound to a new
\* table.
rename_copy(h, mapping) == Alloc(h, "df", rename(h.objs[1], mapping))

\* Lines 109-115 of harmonize_scopus, 129-135 of harmonize_wos: stores into df.
store_fields(h) ==
    LET h1 == Store(h, "df", map_authors(Load(h, "df")))
        h2 == Store(h1, "df", map_doi(Load(h1, "df")))
        h3 == Store(h2, "df", map_keywords(Load(h2, "df"), "author_keywords"))
    IN  Store(h3, "df", map_keywords(Load(h3, "df"), "index_keywords"))

\* harmonize_scopus(df), statement by statement; a call that raises leaves
\* no return value.
call_harmonize_scopus(h) ==
    IF HasDuplicates(renamed_columns(h.objs[1], SCOPUS_MAP)) THEN h
    ELSE LET h1 == rename_copy(h, SCOPUS_MAP)
             h2 == Store(h1, "df", assign(Load(h1, "df"), "source_db",
                                          broadcast(Load(h1, "df"), Str(SCOPUS_TAG))))
             h3 == store_fields(h2)
         IN  Alloc(h3, "return", reindex_columns(Load(h3, "df"), CANONICAL, Str(Empty)))

\* harmonize_wos(df), statement by statement.
call_harmonize_wos(h) ==
    IF HasDuplicates(renamed_columns(h.objs[1], WOS_MAP)) THEN h
    ELSE LET h1 == rename_copy(h, WOS_MAP)
             h2 == Store(h1, "df", assign(Load(h1, "df"), "source_db",
                                          broadcast(Load(h1, "df"), Str(WOS_TAG))))
             h3 == Store(h2, "df", authors_fallback(Load(h2, "df")))
             h4 == store_fields(h3)
         IN  Alloc(h4, "return", reindex_columns(Load(h4, "df"), CANONICAL, Str(Empty)))

\* merge_and_dedupe(dfs), statement by statement; the first n objects are the
\* tables of dfs.
call_merge_and_dedupe(h, n) ==
    IF n = 0 THEN Alloc(h, "return", EmptyFrame(CANONICAL))
    ELSE LET h1 == Alloc(h, "df", concat(SubSeq(h.objs, 1, n)))
             h2 == Alloc(h1, "df", dropna_title(Load(h1, "df")))
             df == Load(h2, "df")
             h3 == Alloc(h2, "with_doi", [df EXCEPT !.rows = SelectSeq(df.rows, has_doi)])
             h4 == Alloc(h3, "no_doi",
                         [df EXCEPT !.rows = SelectSeq(df.rows, LAMBDA r : ~has_doi(r))])
             h5 == Alloc(h4, "df_doi",
                         [df EXCEPT !.rows = dedupe_doi(Load(h4, "with_doi").rows)])
             h6 == IF Load(h5, "no_doi").rows # <<>>
                   THEN LET h7 == Store(h5, "no_doi", with_first_author(Load(h5, "no_doi")))
                            w == Load(h7, "no_doi")
                        IN  Alloc(h7, "df_no_doi",
                                  [w EXCEPT !.rows = drop_duplicates(
                                        w.rows, {"title", "year", "first_author"})])
                   ELSE Alloc(h5, "df_no_doi", EmptyFrame(df.columns))
             h8 == Alloc(h6, "df_final",
                         final_concat(Load(h6, "df_doi"), Load(h6, "df_no_doi")))
         IN  Return(h8, "df_final")

\* coauthorship_graph(df, min_freq), statement by statement; object 1 is
\* df["authors"].
call_coauthorship_graph(h, k) ==
    LET h1 == Alloc(h, "rows", [i \in 1..Len(h.objs[1]) |-> fillna_empty(h.objs[1][i])])
        h2 == Alloc(h1, "G", coauthor_edges(EmptyGraph, Load(h1, "rows")))
        h3 == Alloc(h2, "G2", subgraph_prune(Load(h2, "G"), k))
        h4 == Store(h3, "G2", with_degree(Load(h3, "G2")))
    IN  Return(h4, "G2")

\* keyword_cooccurrence_graph(df, field, min_freq), statement by statement;
\* object 1 is df[field]. "row = sorted(set(row))" binds the loop variable to
\* a new list.
call_keyword_cooccurrence_graph(h, k) ==
    LET r == keyword_loop(<<>>, EmptyGraph, h.objs[1])
        h1 == Alloc(Alloc(h, "freq", r[1]), "G", r[2])
        nodes == {n \in DOMAIN r[1] : r[1][n] >= k}
        h2 == Alloc(h1, "G2", subgraph(Load(h1, "G"), nodes))
        g == with_degree(Load(h2, "G2"))
        h3 == Store(h2, "G2", [nodes |-> g.nodes, weight |-> g.weight, degree |-> g.degree,
                               freq |-> [n \in g.nodes |-> r[1][n]]])
    IN  Return(h3, "G2")

\* ------------------------------------------------- inputs of the frame runs
FrameRawTables ==
    {RawTable(cols, kinds) : cols \in SubSeqsUpTo(RawColumns, MaxFrameColumns) \ {<<>>},
                             kinds \in SeqsUpTo(RawRowKinds, MaxFrameRows)}

FramePool ==
    { Rec(T_, AB, Y2020, D1), Rec(T_, AB, Y2020, Empty),
      Rec(U_, BA, Y2021, NaN), Rec(NaN, AB, Y2020, Empty) }

FrameTableLists ==
    {<<>>} \cup {TablesOf(t) : t \in SeqsUpTo(FramePool \cup {Break}, MaxFrameTokens)}

FrameRecords == {RecordsOf(t) : t \in SeqsUpTo(GraphTokens, MaxFrameTokens + 1)}

InitFrame ==
    /\ \/ /\ ffn \in {"harmonize_scopus", "harmonize_wos"}
          /\ \E t \in FrameRawTables : fargs = <<t>>
          /\ fk = 0
       \/ /\ ffn = "merge_and_dedupe"
          /\ fargs \in FrameTableLists
          /\ fk = 0
       \/ /\ ffn = "coauthorship_graph"
          /\ \E recs \in FrameRecords : fargs = <<<<NaN>> \o AuthorsColumn(recs)>>
          /\ fk \in 0..MaxMinFreq
       \/ /\ ffn = "keyword_cooccurrence_graph"
          /\ \E recs \in FrameRecords : fargs = <<<<OtherCell>> \o KeywordColumn(recs)>>
          /\ fk \in 0..MaxMinFreq
    /\ heap = [objs |-> fargs, bind |-> <<>>]
    /\ fpc = "start"

IdleFrame ==
    /\ ffn = "none" /\ fargs = <<>> /\ fk = 0
    /\ heap = [objs |-> <<>>, bind |-> <<>>]
    /\ fpc = "idle"

CallHarmonizeScopus ==
    /\ fpc = "start" /\ ffn = "harmonize_scopus"
    /\ heap' = call_harmonize_scopus(heap)
    /\ fpc' = "done"
    /\ UNCHANGED <<ffn, fargs, fk, mergeVars, normVars, graphVars, valueVars,
                   harmVars, communityVars, appVars>>

CallHarmonizeWos ==
    /\ fpc = "start" /\ ffn = "harmonize_wos"
    /\ heap' = call_harmonize_wos(heap)
    /\ fpc' = "done"
    /\ UNCHANGED <<ffn, fargs, fk, mergeVars, normVars, graphVars, valueVars,
                   harmVars, communityVars, appVars>>

CallMergeAndDedupe ==
    /\ fpc = "start" /\ ffn = "merge_and_dedupe"
    /\ heap' = call_merge_and_dedupe(heap, Len(fargs))
    /\ fpc' = "done"
    /\ UNCHANGED <<ffn, fargs, fk, mergeVars, normVars, graphVars, valueVars,
                   harmVars, communityVars, appVars>>

CallCoauthorshipGraph ==
    /\ fpc = "start" /\ ffn = "coauthorship_graph"
    /\ heap' = call_coauthorship_graph(heap, fk)
    /\ fpc' = "done"
    /\ UNCHANGED <<ffn, fargs, fk, mergeVars, normVars, graphVars, valueVars,
                   harmVars, communityVars, appVars>>

CallKeywordCooccurrenceGraph ==
    /\ fpc = "start" /\ ffn = "keyword_cooccurrence_graph"
    /\ heap' = call_keyword_cooccurrence_graph(heap, fk)
    /\ fpc' = "done"
    /\ UNCHANGED <<ffn, fargs, fk, mergeVars, normVars, graphVars, valueVars,
                   harmVars, communityVars, appVars>>

\* ------------------------------------------- harmonize.py: _detect_source
detect_source_harmonize(df) ==
    IF {"Source title", "Cited by"} \cap Range(df.columns) # {} THEN "Scopus"
    ELSE IF {"SO", "PY", "AU"} \cap Range(df.columns) # {} THEN "WoS"
    ELSE "Unknown"

\* ---------------------------------------------------- app.py: the file loop
SCOPUS_ONLY == "Scopus Only"
WOS_ONLY == "Web of Science Only"
COMBINED == "Combined (Scopus + WoS)"
AnalysisModes == {SCOPUS_ONLY, WOS_ONLY, COMBINED}

\* The chain without the test for the canonical fields: whatever is neither
\* Scopus nor WoS is taken as a harmonized file.
inline_detect_any(df) ==
    LET cols == Range(df.columns)
    IN  IF "Source title" \in cols \/ "Cited by" \in cols THEN "Scopus"
        ELSE IF "SO" \in cols \/ "PY" \in cols \/ "AU" \in cols
        THEN "Web of Science (WoS)"
        ELSE "Harmonized Bibliometric File"

\* The tests of the if / elif chain on cols = set(df_raw.columns), by the
\* source named in the message of the branch.
inline_detect(df) ==
    LET cols == Range(df.columns)
    IN  IF "Source title" \in cols \/ "Cited by" \in cols THEN "Scopus"
        ELSE IF "SO" \in cols \/ "PY" \in cols \/ "AU" \in cols
        THEN "Web of Science (WoS)"
        ELSE IF {"title", "year", "authors"} \subseteq cols
        THEN "Harmonized Bibliometric File"
        ELSE "Unknown format"

\* st.success(...) / st.warning(...) for file i
Message(level, what, i) == [level |-> level, what |-> what, file |-> i]

\* dfs.append(df), for file i
appended(st, df, i) == [st EXCEPT !.dfs = Append(@, df), !.from = Append(@, i)]

\* The body of "for f in files" after cached_read(f) returned table: the
\* loop state after file i, or the exception that ends the script run.
loop_body(st, i, table, mode) ==
    LET seen == inline_detect(table)
        said == [st EXCEPT !.messages =
                    Append(@, Message(IF seen = "Unknown format" THEN "warning" ELSE "success",
                                      seen, i))]
    IN  IF seen = "Scopus"
        THEN IF mode \in {SCOPUS_ONLY, COMBINED}
             THEN LET h == harmonize_scopus(table)
                  IN  IF h.kind = "raise" THEN [said EXCEPT !.raised = TRUE]
                      ELSE appended(said, h.df, i)
             ELSE said
        ELSE IF seen = "Web of Science (WoS)"
        THEN IF mode \in {WOS_ONLY, COMBINED}
             THEN LET h == harmonize_wos(table)
                  IN  IF h.kind = "raise" THEN [said EXCEPT !.raised = TRUE]
                      ELSE appended(said, h.df, i)
             ELSE said
        ELSE IF seen = "Harmonized Bibliometric File" THEN appended(said, table, i)
        ELSE said

\* The uploaded files: exports of both sources, files only one detector
\* knows, a file no detector knows, a file of canonical columns and a file on
\* which the Harmonizer raises.
UploadColumns ==
    { <<"Title", "Authors", "DOI">>, <<"TI", "AU">>, <<"Cited by">>, <<"PY">>,
      <<"Notes">>, <<"title", "year", "authors">>, <<"Authors", "Title", "title">> }

Uploads == {RawTable(cols, <<"clean">>) : cols \in UploadColumns}

InitApp ==
    /\ files \in SeqsUpTo(Uploads, MaxFiles)
    /\ analysis_mode \in AnalysisModes
    /\ fi = 1
    /\ df_raw = Failed
    /\ app_dfs = <<>>
    /\ app_from = <<>>
    /\ messages = <<>>
    /\ verdicts = <<>>
    /\ app_pc = "loop"

IdleApp ==
    /\ files = <<>> /\ analysis_mode = "none" /\ fi = 0 /\ df_raw = Failed
    /\ app_dfs = <<>> /\ app_from = <<>> /\ messages = <<>>
    /\ verdicts = <<>> /\ app_pc = "idle"

\* for f in files: df_raw = cached_read(f)["df"]; an exception of
\* read_any_table ends the script run.
ReadFile ==
    /\ app_pc = "loop"
    /\ fi <= Len(files)
    /\ df_raw' = read_any_table(files[fi])
    /\ app_pc' = IF read_any_table(files[fi]).kind = "raise" THEN "raised" ELSE "read"
    /\ UNCHANGED <<files, analysis_mode, fi, app_dfs, app_from, messages, verdicts,
                   mergeVars, normVars, graphVars, valueVars, harmVars, communityVars,
                   frameVars>>

\* The if / elif chain for the file read, then on to the next file.
ClassifyFile ==
    /\ app_pc = "read"
    /\ LET st == loop_body([dfs |-> app_dfs, from |-> app_from,
                            messages |-> messages, raised |-> FALSE],
                           fi, df_raw.df, analysis_mode)
       IN  /\ app_dfs' = st.dfs
           /\ app_from' = st.from
           /\ messages' = st.messages
           /\ app_pc' = IF st.raised THEN "raised" ELSE "loop"
           /\ fi' = IF st.raised THEN fi ELSE fi + 1
    /\ UNCHANGED <<files, analysis_mode, df_raw, verdicts, mergeVars, normVars, graphVars,
                   valueVars, harmVars, communityVars, frameVars>>

\* The loop is over: if not dfs: st.stop(), else the active dataset is made.
EndLoop ==
    /\ app_pc = "loop"
    /\ fi = Len(files) + 1
    /\ app_pc' = IF app_dfs = <<>> THEN "stopped" ELSE "merge"
    /\ UNCHANGED <<files, analysis_mode, fi, df_raw, app_dfs, app_from, messages,
                   verdicts, mergeVars, normVars, graphVars, valueVars, harmVars,
                   communityVars, frameVars>>

\* ------------------------------------------- the three detectors, one table
DetectColumns ==
    <<"Authors", "Source title", "Cited by", "Title", "AU", "TI", "SO", "PY",
      "Notes", "title", "year", "authors">>

InitDetect ==
    /\ \E cols \in SubSeqsUpTo(DetectColumns, MaxDetectColumns) : files = <<EmptyFrame(cols)>>
    /\ analysis_mode = "none"
    /\ fi = 1
    /\ df_raw = Failed
    /\ app_dfs = <<>>
    /\ app_from = <<>>
    /\ messages = <<>>
    /\ verdicts = <<>>
    /\ app_pc = "detect"

\* Each detector asked about the same table.
DetectSource ==
    /\ app_pc = "detect"
    /\ verdicts' = [harmonize |-> detect_source_harmonize(files[1]),
                    utils_io |-> detect_source(files[1]),
                    inline |-> inline_detect(files[1])]
    /\ app_pc' = "detected"
    /\ UNCHANGED <<files, analysis_mode, fi, df_raw, app_dfs, app_from, messages,
                   mergeVars, normVars, graphVars, valueVars, harmVars, communityVars,
                   frameVars>>

\* ------------------------------------------- network.py: detect_communities
\* The order of the nodes in a graph, as far as the libraries depend on one.
NodeOrder == << <<"A">>, <<"B">>, <<"C">>, <<"D">>, <<"E">> >>
Rank(n) == CHOOSE i \in 1..Len(NodeOrder) : NodeOrder[i] = n

\* The partitions of a set of nodes into communities.
RECURSIVE Partitions(_)
Partitions(S) ==
    IF S = {} THEN {{}}
    ELSE LET x == CHOOSE n \in S : TRUE
         IN  UNION {{P \cup {{x}}} \cup {(P \ {c}) \cup {c \cup {x}} : c \in P} :
                        P \in Partitions(S \ {x})}

RECURSIVE SumWeights(_, _, _)
\* Total weight of a set of edges; every edge counts 1 when not weighted.
SumWeights(g, edges, weighted) ==
    IF edges = {} THEN 0
    ELSE LET e == CHOOSE d \in edges : TRUE
         IN  (IF weighted THEN g.weight[e] ELSE 1) + SumWeights(g, edges \ {e}, weighted)

\* Twice the weight inside community c, and the total degree of its nodes.
InsideWeight(g, c, weighted) ==
    2 * SumWeights(g, {e \in DOMAIN g.weight : e \subseteq c}, weighted)
TotalDegree(g, c, weighted) ==
    InsideWeight(g, c, weighted)
    + SumWeights(g, {e \in DOMAIN g.weight : e \cap c # {} /\ ~(e \subseteq c)}, weighted)

RECURSIVE ModularityOver(_, _, _)
\* The modularity of a partition, times the square of the total degree W:
\* the sum over the communities of inside * W - total^2.
ModularityOver(g, P, weighted) ==
    IF P = {} THEN 0
    ELSE LET c == CHOOSE d \in P : TRUE
             W == 2 * SumWeights(g, DOMAIN g.weight, weighted)
         IN  InsideWeight(g, c, weighted) * W
             - TotalDegree(g, c, weighted) * TotalDegree(g, c, weighted)
             + ModularityOver(g, P \ {c}, weighted)

RECURSIVE Reached(_, _)
\* The nodes of c that edges inside c join to the nodes of seen.
Reached(g, seen) ==
    LET next == seen \cup {n \in g.nodes : \E m \in seen : {n, m} \in DOMAIN g.weight}
    IN  IF next = seen THEN seen ELSE Reached(g, next)

\* The edges inside c join all its nodes.
Connected(g, c) ==
    LET inside == [nodes |-> c,
                   weight |-> [e \in {d \in DOMAIN g.weight : d \subseteq c} |-> 1]]
    IN  Reached(inside, {CHOOSE n \in c : TRUE}) = c

\* The partitions whose communities are connected: an optimizer joins a node
\* only to the community of a neighbour.
ConnectedPartitions(g) ==
    {P \in Partitions(g.nodes) : \A c \in P : Connected(g, c)}

\* What a modularity optimizer can end with: a partition into connected
\* communities of highest modularity, and among these one with the most
\* communities, since only a move that raises the modularity is made; every
\* node alone when the graph has no edge.
BestPartitions(g, weighted) ==
    LET best == {P \in ConnectedPartitions(g) :
                    \A Q \in ConnectedPartitions(g) :
                        ModularityOver(g, P, weighted) >= ModularityOver(g, Q, weighted)}
    IN  {P \in best : \A Q \in best : Cardinality(P) >= Cardinality(Q)}

FirstNode(c) == Min({Rank(n) : n \in c})

RECURSIVE by_first_node(_)
\* The communities in the order of their first nodes.
by_first_node(P) ==
    IF P = {} THEN <<>>
    ELSE LET c == CHOOSE d \in P : \A o \in P : FirstNode(d) <= FirstNode(o)
         IN  <<c>> \o by_first_node(P \ {c})

RECURSIVE by_size(_)
\* sorted(communities, key=len, reverse=True): largest first, equal sizes in
\* the order of their first nodes.
by_size(P) ==
    IF P = {} THEN <<>>
    ELSE LET c == CHOOSE d \in P :
                    \A o \in P : \/ Cardinality(d) > Cardinality(o)
                                 \/ /\ Cardinality(d) = Cardinality(o)
                                    /\ FirstNode(d) <= FirstNode(o)
         IN  <<c>> \o by_size(P \ {c})

\* {n: i for i, comm in enumerate(partition, 1) for n in comm}: ids from 1 on.
enumerate_from_one(comms) ==
    [n \in UNION Range(comms) |-> CHOOSE i \in 1..Len(comms) : n \in comms[i]]

\* {n: i for i, comm in enumerate(partition) for n in comm}
enumerate_ids(comms) ==
    [n \in UNION Range(comms) |-> (CHOOSE i \in 1..Len(comms) : n \in comms[i]) - 1]

\* community_louvain.best_partition(G), called without random_state: ties
\* between moves are broken by draws from the global random generator, so any
\* of the best partitions can come out; ids number the communities from the
\* first node on. Louvain uses the edge weights.
best_partition(g) ==
    {enumerate_ids(by_first_node(P)) : P \in BestPartitions(g, TRUE)}

\* nx.algorithms.community.greedy_modularity_communities(G): no random draw,
\* one result per graph; weight=None, so every edge counts 1.
greedy_modularity_communities(g) ==
    by_size(CHOOSE P \in BestPartitions(g, FALSE) : TRUE)

\* The mappings detect_communities(G) can return.
detect_communities(g, installed) ==
    IF installed THEN best_partition(g)
    ELSE {enumerate_ids(greedy_modularity_communities(g))}

\* nx.set_node_attributes(G, partition, "community")
set_community(g, partition) == [community |-> partition] @@ g

\* ------------------------------------------ inputs of detect_communities
CommunityNodes == {NodeOrder[i] : i \in 1..MaxCommunityNodes}

\* Every graph on some of the nodes, all weights 1, no community attribute.
CommunityGraphs ==
    {[nodes |-> ns, weight |-> [e \in es |-> 1], community |-> <<>>] :
        ns \in SUBSET CommunityNodes,
        es \in SUBSET {e \in SUBSET CommunityNodes : Cardinality(e) = 2}}

NoPartition == <<>>

InitCommunity ==
    /\ \E g \in CommunityGraphs :
          /\ DOMAIN g.weight \subseteq SUBSET g.nodes
          /\ cG = g
    /\ louvain \in BOOLEAN
    /\ partition1 = NoPartition
    /\ partition2 = NoPartition
    /\ cpc = "start"

IdleCommunity ==
    /\ cG = [nodes |-> {}, weight |-> <<>>, community |-> <<>>]
    /\ louvain = FALSE
    /\ partition1 = NoPartition
    /\ partition2 = NoPartition
    /\ cpc = "idle"

\* partition1 = detect_communities(G)
DetectCommunities ==
    /\ cpc = "start"
    /\ \E p \in detect_communities(cG, louvain) :
          /\ partition1' = p
          /\ cG' = set_community(cG, p)
    /\ cpc' = "once"
    /\ UNCHANGED <<louvain, partition2, mergeVars, normVars, graphVars, valueVars, harmVars, frameVars, appVars>>

\* partition2 = detect_communities(G), on the graph of the first call
DetectAgain ==
    /\ cpc = "once"
    /\ \E p \in detect_communities(cG, louvain) :
          /\ partition2' = p
          /\ cG' = set_community(cG, p)
    /\ cpc' = "twice"
    /\ UNCHANGED <<louvain, partition1, mergeVars, normVars, graphVars, valueVars, harmVars, frameVars, appVars>>

\* detect_communities(G2); detect_communities(KG2): both returned graphs are
\* annotated, as by the callers of the builders.
AnnotateCommunities ==
    /\ gpc = "keywords"
    /\ \E installed \in BOOLEAN :
          /\ \E p \in detect_communities(G2, installed) : G2' = set_community(G2, p)
          /\ \E p \in detect_communities(KG2, installed) : KG2' = set_community(KG2, p)
    /\ gpc' = "communities"
    /\ UNCHANGED <<acol, kcol, min_freq, kfreq, Gfull, KGfull,
                   mergeVars, normVars, valueVars, harmVars, communityVars, frameVars, appVars>>

\* ---------------------------------------------------------------- C25
\* The mapping and the graph after the latest call.
LastPartition == IF cpc = "twice" THEN partition2 ELSE partition1

\* C25: the mapping detect_communities returns has exactly the nodes of the
\* graph as keys and an integer id for each, the community attribute of every
\* node is its id, and in the fallback the id of a node is the position, from
\* 0 on, of its community in the output of greedy_modularity_communities.
C25_PartitionMapping ==
    cpc \in {"once", "twice"} =>
        /\ DOMAIN LastPartition = cG.nodes
        /\ \A n \in cG.nodes : LastPartition[n] \in Nat
        /\ DOMAIN cG.community = cG.nodes
        /\ \A n \in cG.nodes : cG.community[n] = LastPartition[n]
        /\ ~louvain =>
              LET out == greedy_modularity_communities(cG)
              IN  \A i \in 1..Len(out) : \A n \in out[i] : LastPartition[n] = i - 1

\* The fallback has split a graph of four nodes into communities of
\* different sizes.
C25_Witness ==
    /\ cpc = "once" /\ ~louvain
    /\ Cardinality(cG.nodes) = 4
    /\ \E n, m \in cG.nodes : partition1[n] = 0 /\ partition1[m] = 1
    /\ Cardinality({n \in cG.nodes : partition1[n] = 0}) = 3

\* ---------------------------------------------------------------- C26
\* C26: two calls of detect_communities on the same graph return the same
\* mapping.
C26_Deterministic ==
    cpc = "twice" => partition2 = partition1

\* --------------------------------------------------- graphs: the claims
\* C1: every node of the graph coauthorship_graph returns has at least
\* min_freq distinct neighbours inside the returned graph.
C1_PrunedDegree ==
    gpc # "start" => \A n \in G2.nodes : degree(G2, n) >= min_freq

\* The keywords of the column, and the records whose list holds a keyword.
Keywords == UNION {Range(kcol[i].items) : i \in 1..Len(kcol)}
RecordsWith(k) == {i \in 1..Len(kcol) : kcol[i].list /\ k \in Range(kcol[i].items)}

\* C2: the frequency recorded for a keyword is the number of records whose
\* keyword field contains it, records holding it alone included.
C2_FrequencyCountsRecords ==
    gpc = "keywords" =>
        /\ DOMAIN kfreq = Keywords
        /\ \A k \in Keywords : kfreq[k] = Cardinality(RecordsWith(k))
        /\ \A k \in KG2.nodes : KG2.freq[k] = Cardinality(RecordsWith(k))

\* ---------------------------------------------------------------- C19
\* The distinct entities of record i of the authors column and of the
\* keyword column.
AuthorSet(i) == Range(Entries(acol[i]))
KeywordSet(i) == IF kcol[i].list THEN Range(kcol[i].items) ELSE {}

\* The weight function that gives every pair of distinct entities found
\* together in a record the number of such records, and has no other edge;
\* Of(i) is the entity set of record i of the n records.
CooccurrenceCounts(n, Of(_)) ==
    LET all == UNION {Of(i) : i \in 1..n}
        together(e) == {i \in 1..n : e \subseteq Of(i)}
        edges == {e \in SUBSET all : Cardinality(e) = 2 /\ together(e) # {}}
    IN  [e \in edges |-> Cardinality(together(e))]

ScenarioWeights ==
    LET w == [A_B |-> 2, A_C |-> 1, B_C |-> 2, B_D |-> 1, C_D |-> 1]
        name == [A_B |-> {<<"A">>, <<"B">>}, A_C |-> {<<"A">>, <<"C">>},
                 B_C |-> {<<"B">>, <<"C">>}, B_D |-> {<<"B">>, <<"D">>},
                 C_D |-> {<<"C">>, <<"D">>}]
    IN  [e \in {name[k] : k \in DOMAIN name} |->
            w[CHOOSE k \in DOMAIN name : name[k] = e]]

\* C19: before pruning, the edges of each graph are the pairs of distinct
\* entities found together in at least one record, weighted by the number of
\* such records; and the authors column ["A;B;C", "A;B", "B;C;D"] with
\* min_freq = 1 gives the nodes A, B, C, D and the edges A-B:2, A-C:1, B-C:2,
\* B-D:1, C-D:1.
C19_CooccurrenceWeights ==
    /\ gpc # "start" => Gfull.weight = CooccurrenceCounts(Len(acol), AuthorSet)
    /\ gpc = "keywords" => KGfull.weight = CooccurrenceCounts(Len(kcol), KeywordSet)
    /\ gpc # "start" /\ acol = AuthorsColumn(ScenarioRecords) /\ min_freq = 1 =>
          /\ G2.nodes = {<<"A">>, <<"B">>, <<"C">>, <<"D">>}
          /\ G2.weight = ScenarioWeights

\* The scenario column has been processed with min_freq = 1.
C19_Witness ==
    /\ gpc = "keywords" /\ acol = AuthorsColumn(ScenarioRecords) /\ min_freq = 1
    /\ Cardinality(DOMAIN G2.weight) = 5
    /\ \E e \in DOMAIN KGfull.weight : KGfull.weight[e] = 2

\* ---------------------------------------------------------------- C20
\* g is a simple undirected weighted graph: every edge joins two different
\* nodes of g and has an integer weight of at least 1. An edge being the set
\* of its end nodes, a pair has one edge at most, with one weight.
SimpleWeighted(g) ==
    \A e \in DOMAIN g.weight :
        /\ Cardinality(e) = 2
        /\ e \subseteq g.nodes
        /\ g.weight[e] \in Nat /\ g.weight[e] >= 1

\* C20: the graphs coauthorship_graph and keyword_cooccurrence_graph return
\* have no self-loop, and every edge has a weight >= 1 and both end nodes in
\* the graph.
C20_SimpleGraph ==
    /\ gpc # "start" => SimpleWeighted(G2)
    /\ gpc = "keywords" => SimpleWeighted(KG2)

\* Both graphs have been built, each has an edge of weight 2, and the
\* frequency threshold has removed a keyword.
C20_Witness ==
    /\ gpc = "keywords"
    /\ KG2.nodes # KGfull.nodes
    /\ \E e \in DOMAIN KG2.weight : KG2.weight[e] = 2
    /\ \E e \in DOMAIN G2.weight : G2.weight[e] = 2

\* ---------------------------------------------------------------- C21
\* C21: a keyword is a node of the returned keyword graph exactly when the
\* number of records containing it is at least min_freq, whatever its
\* neighbours are, and an edge is kept exactly when both its end nodes are.
C21_PrunedByFrequency ==
    gpc = "keywords" =>
        /\ KG2.nodes = {k \in Keywords : Cardinality(RecordsWith(k)) >= min_freq}
        /\ DOMAIN KG2.weight = {e \in DOMAIN KGfull.weight : e \subseteq KG2.nodes}

\* ---------------------------------------------------------------- C22
\* The neighbours of node n in graph g.
Neighbours(g, n) == {m \in g.nodes : m # n /\ {n, m} \in DOMAIN g.weight}

DegreeIsNeighbours(g) ==
    /\ DOMAIN g.degree = g.nodes
    /\ \A n \in g.nodes : g.degree[n] = Cardinality(Neighbours(g, n))

\* C22: in each returned graph the degree attribute of every node is the
\* number of its neighbours in that graph, before and after
\* detect_communities has annotated it.
C22_DegreeAttribute ==
    /\ gpc # "start" => DegreeIsNeighbours(G2)
    /\ gpc \in {"keywords", "communities"} => DegreeIsNeighbours(KG2)

\* Both graphs are annotated; pruning removed nodes of the co-authorship
\* graph and left a node with fewer neighbours than it had, on an edge of
\* weight 2.
C22_Witness ==
    /\ gpc = "communities"
    /\ DOMAIN G2.community = G2.nodes
    /\ G2.nodes # Gfull.nodes
    /\ \E n \in G2.nodes :
          /\ Cardinality(Neighbours(G2, n)) < Cardinality(Neighbours(Gfull, n))
          /\ \E m \in Neighbours(G2, n) : G2.weight[{n, m}] = 2

\* ---------------------------------------------------------------- C23
\* No record reaches the deduplication tiers: no table, no record, or every
\* record with an absent title.
NoRecordLeft == \A i \in 1..Len(Cat) : isna(Cat[i]["title"])

NoAuthor(cell) == isna(cell) \/ cell = Empty
NoKeyword(cell) == ~cell.list \/ cell.items = <<>>
NoNodesNoEdges(g) == g.nodes = {} /\ DOMAIN g.weight = {}

\* C23: merge_and_dedupe of no table, of tables without records or of
\* records that all lack a title returns the empty canonical table; the graph
\* builders on a table without records, or whose field is empty in every
\* record, return a graph without nodes and edges.
C23_AbsenceDegrades ==
    /\ mpc = "merged" /\ NoRecordLeft => merged = EmptyFrame(CANONICAL)
    /\ gpc \in {"coauthors", "keywords"} /\ (\A i \in 1..Len(acol) : NoAuthor(acol[i]))
          => NoNodesNoEdges(G2)
    /\ gpc = "keywords" /\ (\A i \in 1..Len(kcol) : NoKeyword(kcol[i]))
          => NoNodesNoEdges(KG2)

\* Two records in two tables were all lost to the title filter, one of them
\* without DOI, and both graphs were built from the empty merged table.
C23_Witness ==
    /\ gpc = "keywords"
    /\ Len(dfs) = 2
    /\ Len(Cat) = 2
    /\ \E i \in 1..2 : ~has_doi(Cat[i])
    /\ NoRecordLeft
    /\ merged.rows = <<>>
    /\ acol = <<>>
    /\ NoNodesNoEdges(G2) /\ NoNodesNoEdges(KG2)

\* ---------------------------------------------------------------- C24
\* What the function returns for the input values, computed without objects.
ValueReturned ==
    CASE ffn = "harmonize_scopus" -> harmonize_scopus(fargs[1]).df
      [] ffn = "harmonize_wos" -> harmonize_wos(fargs[1]).df
      [] ffn = "merge_and_dedupe" -> merge_and_dedupe(fargs)
      [] ffn = "coauthorship_graph" -> coauthorship_graph(fargs[1], fk)
      [] OTHER -> keyword_cooccurrence_graph(fargs[1], fk)[1]

\* C24: after harmonize_scopus, harmonize_wos, merge_and_dedupe,
\* coauthorship_graph or keyword_cooccurrence_graph every input table is as it
\* was when the call was made, and the value returned is an object created
\* during the call.
C24_InputsUnchanged ==
    fpc = "done" =>
        /\ \A i \in 1..Len(fargs) : heap.objs[i] = fargs[i]
        /\ "return" \in DOMAIN heap.bind =>
              /\ heap.bind["return"] > Len(fargs)
              /\ Load(heap, "return") = ValueReturned

\* harmonize_wos on a one-row table with the column AF and without AU: the
\* fallback and the normalizers stored into the table df is bound to, which
\* differs from the input, and the result was returned.
C24_Witness ==
    /\ fpc = "done" /\ ffn = "harmonize_wos"
    /\ "AF" \in Range(fargs[1].columns) /\ "AU" \notin Range(fargs[1].columns)
    /\ Len(fargs[1].rows) = 1
    /\ "return" \in DOMAIN heap.bind
    /\ "authors" \in Range(Load(heap, "df").columns)
    /\ Load(heap, "df") # fargs[1]

\* ---------------------------------------------------------------- C27
\* No column of the file is a column of a Scopus or WoS export, and the file
\* is not a table of the canonical fields.
Unclassifiable(table) ==
    /\ Range(table.columns) \cap (SourceColumns(SCOPUS_MAP) \cup SourceColumns(WOS_MAP)) = {}
    /\ ~({"title", "year", "authors"} \subseteq Range(table.columns))

FileDone(i) == i < fi
LoopOver == app_pc \in {"stopped", "merge"}

\* C27: a file that cannot be classified gets a warning and no table of dfs
\* comes from it; the loop does not end at such a file, and when no file
\* raises every uploaded file has been handled, one message each.
C27_UnknownFileSkipped ==
    /\ \A i \in 1..Len(files) :
          FileDone(i) /\ Unclassifiable(files[i]) =>
              /\ \E m \in 1..Len(messages) :
                    messages[m].file = i /\ messages[m].level = "warning"
              /\ \A k \in 1..Len(app_from) : app_from[k] # i
    /\ app_pc = "raised" => ~Unclassifiable(files[fi])
    /\ LoopOver =>
          /\ fi = Len(files) + 1
          /\ \A i \in 1..Len(files) : \E m \in 1..Len(messages) : messages[m].file = i

\* Three files, the second cannot be classified: it got the warning, and the
\* files before and after it each gave a table to dfs.
C27_Witness ==
    /\ LoopOver
    /\ Len(files) = 3
    /\ Unclassifiable(files[2])
    /\ app_from = <<1, 3>>
    /\ \E m \in 1..Len(messages) : messages[m].file = 2 /\ messages[m].level = "warning"

\* ---------------------------------------------------------------- C29
IsScopusExport(table) ==
    /\ Range(table.columns) \cap SourceColumns(SCOPUS_MAP) # {}
    /\ Range(table.columns) \cap SourceColumns(WOS_MAP) = {}
IsWosExport(table) ==
    /\ Range(table.columns) \cap SourceColumns(WOS_MAP) # {}
    /\ Range(table.columns) \cap SourceColumns(SCOPUS_MAP) = {}

\* C29: in mode "Scopus Only" no table of dfs comes from a WoS export, and in
\* mode "Web of Science Only" none comes from a Scopus export.
C29_ModeFilterEffective ==
    /\ analysis_mode = SCOPUS_ONLY =>
          \A k \in 1..Len(app_from) : ~IsWosExport(files[app_from[k]])
    /\ analysis_mode = WOS_ONLY =>
          \A k \in 1..Len(app_from) : ~IsScopusExport(files[app_from[k]])

\* ---------------------------------------------------------------- C30
\* The source a detector's answer stands for, whatever its spelling.
ClassOf(answer) ==
    CASE answer = "Scopus" -> "scopus"
      [] answer \in {"WoS", "Web of Science", "Web of Science (WoS)"} -> "wos"
      [] answer \in {"Unknown", "Unknown format"} -> "unknown"
      [] OTHER -> "harmonized"

\* C30: harmonize._detect_source, utils_io.detect_source and the inline
\* detection of the file loop give the same source for the same columns.
C30_DetectorsAgree ==
    app_pc = "detected" =>
        /\ ClassOf(verdicts.harmonize) = ClassOf(verdicts.utils_io)
        /\ ClassOf(verdicts.utils_io) = ClassOf(verdicts.inline)

\* ---------------------------------------------------------------- C28
\* The record has no DOI: the cell is the empty string or is missing.
LacksDoi(r) == isna(r["doi"]) \/ r["doi"] = Empty

\* C28: of the titled records without a DOI, every composite key (title,
\* year, first author) is still the key of a record without DOI in the output:
\* two such records with different keys are never made one.
C28_NoDoiKeysKept ==
    mpc = "merged" =>
        LET cat == Cat
            out == merged.rows
        IN  \A i \in 1..Len(cat) :
                LacksDoi(cat[i]) /\ HasTitle(cat[i]) =>
                    \E k \in 1..Len(out) :
                        LacksDoi(out[k]) /\ KeyOf(out[k]) = KeyOf(cat[i])

\* ------------------------------------------------------------------ idle
IdleNorm == txt = Empty /\ normed = Empty /\ apc = "idle"

IdleGraph ==
    /\ acol = <<>>
    /\ kcol = <<>>
    /\ min_freq = 0
    /\ G2 = [nodes |-> {}, weight |-> <<>>, degree |-> <<>>]
    /\ KG2 = [nodes |-> {}, weight |-> <<>>, degree |-> <<>>]
    /\ kfreq = <<>>
    /\ Gfull = EmptyGraph
    /\ KGfull = EmptyGraph
    /\ gpc = "idle"

\* ------------------------------------------------------- specifications
NextMerge == Merge \/ Remerge

MergeStart == InitMerge /\ IdleNorm /\ IdleGraph /\ IdleValue /\ IdleHarm /\ IdleCommunity /\ IdleFrame /\ IdleApp

SpecMerge == MergeStart /\ [][NextMerge]_vars

NextNorm == NormAuthors \/ NormAuthorsValue \/ NormKeywords \/ NormDoi \/ RelabelCountry

\* One call per behaviour: _norm_authors on a raw author cell, or one of the
\* four value normalizers on any value.
NormStart ==
    /\ IdleMerge /\ IdleGraph /\ IdleHarm /\ IdleCommunity /\ IdleFrame /\ IdleApp
    /\ \/ InitNorm /\ IdleValue
       \/ IdleNorm /\ InitValue

SpecNorm == NormStart /\ [][NextNorm]_vars

NextGraph == Coauthorship \/ KeywordCooccurrence \/ AnnotateCommunities

GraphStart == InitGraph /\ IdleMerge /\ IdleNorm /\ IdleValue /\ IdleHarm /\ IdleCommunity /\ IdleFrame /\ IdleApp

SpecGraph == GraphStart /\ [][NextGraph]_vars

NextHarmonize == HarmonizeScopus \/ HarmonizeWos \/ ReadAnyTable
HarmonizeStart == InitHarm /\ IdleMerge /\ IdleNorm /\ IdleGraph /\ IdleValue /\ IdleCommunity /\ IdleFrame /\ IdleApp
SpecHarmonize == HarmonizeStart /\ [][NextHarmonize]_vars

NextAbsence == Merge \/ TakeMerged \/ Coauthorship \/ KeywordCooccurrence
AbsenceStart == InitAbsence /\ IdleNorm /\ IdleValue /\ IdleHarm /\ IdleCommunity /\ IdleFrame /\ IdleApp
SpecAbsence == AbsenceStart /\ [][NextAbsence]_vars

NextFrame ==
    \/ CallHarmonizeScopus \/ CallHarmonizeWos \/ CallMergeAndDedupe
    \/ CallCoauthorshipGraph \/ CallKeywordCooccurrenceGraph
FrameStart ==
    InitFrame /\ IdleMerge /\ IdleNorm /\ IdleGraph /\ IdleValue /\ IdleHarm /\ IdleCommunity
    /\ IdleApp
SpecFrame == FrameStart /\ [][NextFrame]_vars

NextApp == ReadFile \/ ClassifyFile \/ EndLoop
AppStart ==
    InitApp /\ IdleMerge /\ IdleNorm /\ IdleGraph /\ IdleValue /\ IdleHarm /\ IdleCommunity
    /\ IdleFrame
SpecApp == AppStart /\ [][NextApp]_vars

NextDetect == DetectSource
DetectStart ==
    InitDetect /\ IdleMerge /\ IdleNorm /\ IdleGraph /\ IdleValue /\ IdleHarm /\ IdleCommunity
    /\ IdleFrame
SpecDetect == DetectStart /\ [][NextDetect]_vars

NextCommunity == DetectCommunities \/ DetectAgain
CommunityStart ==
    InitCommunity /\ IdleMerge /\ IdleNorm /\ IdleGraph /\ IdleValue /\ IdleHarm /\ IdleFrame /\ IdleApp
SpecCommunity == CommunityStart /\ [][NextCommunity]_vars

====
